---- MODULE Spec2Model ----
(***************************************************************************)
(* Model of the workflow orchestration engine of the claude-agent crate    *)
(* (src/claude-agent/src/workflow_engine.rs, src/claude-agent/src/core.rs):*)
(* workflow validation, execution-graph construction, the scheduler loop   *)
(* with its spawned step tasks, retry/backoff, and the execution history.  *)
(***************************************************************************)
EXTENDS Integers, Sequences, FiniteSets, TLC

VARIABLES
    workflow,        \* the WorkflowDefinition handed to execute_workflow
    pc,              \* position of the execute_workflow call
    execution_history, \* WorkflowEngine.execution_history (Vec<WorkflowExecution>)
    graph,           \* ExecutionGraph.nodes of the run (step name -> ExecutionNode)
    node_order,      \* iteration order of the graph's HashMap, while it is iterated
    ready_steps,     \* VecDeque of step names
    running_steps,   \* HashMap step name -> JoinHandle (task id)
    step_results,    \* HashMap step name -> value
    completed_steps, \* HashSet of step names
    tasks,           \* the tasks spawned with tokio::spawn, by task id
    result,          \* what execute_workflow_internal / execute_workflow returns
    bk,              \* a call of calculate_backoff: its arguments and its outcome
    context,         \* the WorkflowContext handed to execute_workflow
    runs,            \* execute_workflow calls sharing the engine: run -> position, id
    lookup,          \* the last get_execution_history / get_execution call and its value
    registry,        \* AgentRegistry.agents: the names registered with the engine's registry
    observed,        \* per task followed on its own: what its latest agent call did
    polls,           \* returns of wait_for_any_step without a finished task
    dispatcher       \* the AgentDispatcherImpl wrapping the agent "ag"

vars == <<workflow, pc, execution_history, graph, node_order, ready_steps,
          running_steps, step_results, completed_steps, tasks, result,
          bk, context, runs, lookup, registry, observed, polls, dispatcher>>

(***************************************************************************)
(* Bounds of the model.                                                    *)
(***************************************************************************)
MaxSteps == 3
MaxDeps == 2
MaxEdges == 3
EngineMaxEdges == 2
MaxAttempts == 2
MaxAttemptArg == 66
MaxDelaySecs == 5
RejectMaxSteps == 3
RejectMaxEdges == 1
MaxRuns == 2
MaxEvents == 2
MaxOutputs == 2
LiveMaxSteps == 2
LiveMaxEdges == 1
MaxPolls == 1
MaxCalls == 4

(***************************************************************************)
(* Generic helpers.                                                        *)
(***************************************************************************)
Range(s) == {s[i] : i \in DOMAIN s}

SeqsUpTo(S, n) == UNION {[1..k -> S] : k \in 0..n}

Perms(S) == {p \in [1..Cardinality(S) -> S] : Range(p) = S}

None == [tag |-> "None"]

(***************************************************************************)
(* Data: core.rs                                                           *)
(***************************************************************************)
NameSeq == <<"a", "analysis_results", "c">>
Names == Range(NameSeq)

\* the agents registered by the callers of WorkflowEngine::new
AgentKeys == {"ag"}

\* AgentRegistry::get_agent(name).is_some()
get_agent(name) == name \in registry

\* RetryPolicy::default()
DefaultMaxAttempts == 3
DefaultMaxDelay == 60
DefaultRetryPolicy ==
    [max_attempts |-> DefaultMaxAttempts,
     backoff_strategy |-> "Exponential",
     max_delay |-> DefaultMaxDelay]

\* payload is the value carried by the input variant: the PathBuf of
\* ProjectPath, the Value of Custom
WorkflowStep(name, agent, deps, output, policy) ==
    [name |-> name, agent |-> agent, input |-> "Custom", payload |-> "custom",
     output |-> output, dependencies |-> deps, retry_policy |-> policy]

WorkflowDefinition(name, steps, outputs) ==
    [name |-> name, steps |-> steps, outputs |-> outputs]

\* AgentError values
Err(kind, msg) == [tag |-> "Err", kind |-> kind, msg |-> msg]
Ok(v) == [tag |-> "Ok", value |-> v]

(***************************************************************************)
(* WorkflowEngine::validate_workflow and has_circular_dependencies         *)
(***************************************************************************)
StepNames(wf) == {wf.steps[i].name : i \in DOMAIN wf.steps}

\* workflow.steps.iter().find(|s| s.name == *dep): index of the first match, 0 if none
FindStep(wf, dep) ==
    IF \E i \in DOMAIN wf.steps : wf.steps[i].name = dep
    THEN CHOOSE i \in DOMAIN wf.steps :
            /\ wf.steps[i].name = dep
            /\ \A j \in DOMAIN wf.steps : wf.steps[j].name = dep => i <= j
    ELSE 0

RECURSIVE has_circular_dependencies_helper(_, _, _)
RECURSIVE helper_deps(_, _, _, _)

\* the body of "for dep in &step.dependencies", from the i-th entry on.
\* st = [visited, recursion_stack, ret]
helper_deps(step, i, wf, st) ==
    IF i > Len(step.dependencies) THEN st
    ELSE LET dep == step.dependencies[i]
             idx == FindStep(wf, dep)
         IN IF idx = 0 THEN helper_deps(step, i + 1, wf, st)
            ELSE IF dep \in st.recursion_stack THEN [st EXCEPT !.ret = TRUE]
            ELSE LET st1 == has_circular_dependencies_helper(wf.steps[idx], wf, st)
                 IN IF st1.ret THEN st1 ELSE helper_deps(step, i + 1, wf, st1)

\* variant: the step is never taken off the recursion stack on the way back
has_circular_dependencies_helper_keep_stack(step, wf, st) ==
    IF step.name \in st.visited THEN [st EXCEPT !.ret = FALSE]
    ELSE LET st1 == [visited |-> st.visited \cup {step.name},
                     recursion_stack |-> st.recursion_stack \cup {step.name},
                     ret |-> FALSE]
         IN helper_deps(step, 1, wf, st1)

has_circular_dependencies_helper(step, wf, st) ==
    IF step.name \in st.visited THEN [st EXCEPT !.ret = FALSE]
    ELSE LET st1 == [visited |-> st.visited \cup {step.name},
                     recursion_stack |-> st.recursion_stack \cup {step.name},
                     ret |-> FALSE]
             st2 == helper_deps(step, 1, wf, st1)
         IN IF st2.ret THEN st2
            ELSE [st2 EXCEPT !.recursion_stack = @ \ {step.name}]

RECURSIVE circular_from(_, _, _)
\* the loop "for step in &workflow.steps" of has_circular_dependencies
circular_from(wf, i, st) ==
    IF i > Len(wf.steps) THEN FALSE
    ELSE LET st1 == has_circular_dependencies_helper(wf.steps[i], wf, st)
         IN IF st1.ret THEN TRUE ELSE circular_from(wf, i + 1, st1)

has_circular_dependencies(wf) ==
    circular_from(wf, 1, [visited |-> {}, recursion_stack |-> {}, ret |-> FALSE])

\* first (step, dep) in iteration order whose dep is not a step name; <<0,0>> if none
FirstDangling(wf) ==
    LET entries == UNION {{<<i, j>> : j \in DOMAIN wf.steps[i].dependencies} :
                            i \in DOMAIN wf.steps}
        bad == {p \in entries : wf.steps[p[1]].dependencies[p[2]] \notin StepNames(wf)}
    IN IF bad = {} THEN <<0, 0>>
       ELSE CHOOSE p \in bad : \A q \in bad :
                \/ p[1] < q[1]
                \/ (p[1] = q[1] /\ p[2] <= q[2])

\* first step whose agent is not registered; 0 if none
FirstUnknownAgent(wf) ==
    LET bad == {i \in DOMAIN wf.steps : ~get_agent(wf.steps[i].agent)}
    IN IF bad = {} THEN 0 ELSE CHOOSE i \in bad : \A j \in bad : i <= j

\* variant: the duplicate-name check is skipped
validate_workflow_no_duplicate_check(wf) ==
    IF wf.name = ""
    THEN Err("Configuration", "Workflow name cannot be empty")
    ELSE IF FirstDangling(wf) # <<0, 0>>
    THEN Err("Configuration", "Step depends on non-existent step")
    ELSE IF FirstUnknownAgent(wf) # 0
    THEN Err("Configuration", "Agent not found for step")
    ELSE IF has_circular_dependencies(wf)
    THEN Err("Configuration", "Circular dependencies detected")
    ELSE Ok("unit")

\* variant: the dependency-existence check is skipped
validate_workflow_no_dependency_check(wf) ==
    IF wf.name = ""
    THEN Err("Configuration", "Workflow name cannot be empty")
    ELSE IF Cardinality(StepNames(wf)) # Len(wf.steps)
    THEN Err("Configuration", "Duplicate step names found")
    ELSE IF FirstUnknownAgent(wf) # 0
    THEN Err("Configuration", "Agent not found for step")
    ELSE IF has_circular_dependencies(wf)
    THEN Err("Configuration", "Circular dependencies detected")
    ELSE Ok("unit")

\* variant: the cycle check comes before the agent check
validate_workflow_cycles_first(wf) ==
    IF wf.name = ""
    THEN Err("Configuration", "Workflow name cannot be empty")
    ELSE IF Cardinality(StepNames(wf)) # Len(wf.steps)
    THEN Err("Configuration", "Duplicate step names found")
    ELSE IF FirstDangling(wf) # <<0, 0>>
    THEN Err("Configuration", "Step depends on non-existent step")
    ELSE IF has_circular_dependencies(wf)
    THEN Err("Configuration", "Circular dependencies detected")
    ELSE IF FirstUnknownAgent(wf) # 0
    THEN Err("Configuration", "Agent not found for step")
    ELSE Ok("unit")

\* variant: an engine without registered agents accepts no workflow
validate_workflow_needs_agents(wf) ==
    IF registry = {}
    THEN Err("Configuration", "No agent registered")
    ELSE IF wf.name = ""
    THEN Err("Configuration", "Workflow name cannot be empty")
    ELSE IF Cardinality(StepNames(wf)) # Len(wf.steps)
    THEN Err("Configuration", "Duplicate step names found")
    ELSE IF FirstDangling(wf) # <<0, 0>>
    THEN Err("Configuration", "Step depends on non-existent step")
    ELSE IF FirstUnknownAgent(wf) # 0
    THEN Err("Configuration", "Agent not found for step")
    ELSE IF has_circular_dependencies(wf)
    THEN Err("Configuration", "Circular dependencies detected")
    ELSE Ok("unit")

validate_workflow(wf) ==
    IF wf.name = ""
    THEN Err("Configuration", "Workflow name cannot be empty")
    ELSE IF Cardinality(StepNames(wf)) # Len(wf.steps)
    THEN Err("Configuration", "Duplicate step names found")
    ELSE IF FirstDangling(wf) # <<0, 0>>
    THEN Err("Configuration", "Step depends on non-existent step")
    ELSE IF FirstUnknownAgent(wf) # 0
    THEN Err("Configuration", "Agent not found for step")
    ELSE IF has_circular_dependencies(wf)
    THEN Err("Configuration", "Circular dependencies detected")
    ELSE Ok("unit")

(***************************************************************************)
(* WorkflowEngine::create_execution_graph                                  *)
(***************************************************************************)
\* graph.insert(step.name.clone(), node): the last step inserted under a name stays
LastStep(wf, n) ==
    wf.steps[CHOOSE i \in DOMAIN wf.steps :
                /\ wf.steps[i].name = n
                /\ \A j \in DOMAIN wf.steps : wf.steps[j].name = n => j <= i]

\* number of entries of deps equal to n
RECURSIVE Occurrences(_, _)
Occurrences(deps, n) ==
    IF deps = <<>> THEN 0
    ELSE (IF Head(deps) = n THEN 1 ELSE 0) + Occurrences(Tail(deps), n)

RECURSIVE Repeat(_, _)
Repeat(x, k) == IF k = 0 THEN <<>> ELSE <<x>> \o Repeat(x, k - 1)

\* the dependents list of node n after "for (step_name, node) in &graph", from the
\* i-th node of the iteration order on: one push per dependency entry naming n
RECURSIVE DependentsFrom(_, _, _, _)
DependentsFrom(wf, n, order, i) ==
    IF i > Len(order) THEN <<>>
    ELSE Repeat(order[i], Occurrences(LastStep(wf, order[i]).dependencies, n))
            \o DependentsFrom(wf, n, order, i + 1)

\* variant: the second loop (lines 226-232) is left out, dependents stay empty
create_execution_graph_no_reverse(wf, order) ==
    [n \in StepNames(wf) |->
        [step |-> LastStep(wf, n),
         status |-> "Pending",
         dependencies |-> LastStep(wf, n).dependencies,
         dependents |-> <<>>,
         result |-> None]]

create_execution_graph(wf, order) ==
    [n \in StepNames(wf) |->
        [step |-> LastStep(wf, n),
         status |-> "Pending",
         dependencies |-> LastStep(wf, n).dependencies,
         dependents |-> DependentsFrom(wf, n, order, 1),
         result |-> None]]

(***************************************************************************)
(* Retry and backoff: calculate_backoff, should_retry_step                 *)
(***************************************************************************)
RECURSIVE Pow2(_)
Pow2(e) == IF e = 0 THEN 1 ELSE 2 * Pow2(e - 1)

\* attempt.saturating_sub(1) on u32
saturating_sub(a, b) == IF a >= b THEN a - b ELSE 0

\* width of u64
U64Bits == 64

\* 2u64.pow(e): [panic |-> TRUE] when the product overflows and overflow checks
\* are on; otherwise the value mod 2^64, kept as [zero, log2] because 2^63 does
\* not fit the integers of TLC: zero = TRUE is the wrapped value 0,
\* else the value is 2^log2.
pow2_u64(e, checks) ==
    IF e < U64Bits THEN [panic |-> FALSE, zero |-> FALSE, log2 |-> e]
    ELSE IF checks THEN [panic |-> TRUE, zero |-> FALSE, log2 |-> 0]
    ELSE [panic |-> FALSE, zero |-> TRUE, log2 |-> 0]

\* largest k with 2^k <= n (n >= 1)
RECURSIVE Log2Floor(_)
Log2Floor(n) == IF n < 2 THEN 0 ELSE 1 + Log2Floor(n \div 2)

\* delay.min(max_delay_secs) for delay = 2^log2 or 0, max_delay_secs a small integer
min_u64(p, max_delay_secs) ==
    IF p.zero THEN 0
    ELSE IF max_delay_secs = 0 THEN 0
    ELSE IF p.log2 > Log2Floor(max_delay_secs) THEN max_delay_secs
    ELSE Pow2(p.log2)

\* calculate_backoff: [panic, secs]
calculate_backoff(attempt, retry_policy, checks) ==
    CASE retry_policy.backoff_strategy = "Fixed" -> [panic |-> FALSE, secs |-> 1]
      [] retry_policy.backoff_strategy = "Linear" -> [panic |-> FALSE, secs |-> attempt]
      [] retry_policy.backoff_strategy = "Exponential" ->
            LET delay == pow2_u64(saturating_sub(attempt, 1), checks)
            IN IF delay.panic THEN [panic |-> TRUE, secs |-> 0]
               ELSE [panic |-> FALSE, secs |-> min_u64(delay, retry_policy.max_delay)]

should_retry_step(step) == step.output \in {"AnalysisResults", "CopilotResponse"}

\* variant: one completed dependency is enough
can_execute_step_any(step_name, g, completed) ==
    IF step_name \in DOMAIN g
    THEN \E i \in DOMAIN g[step_name].dependencies :
            g[step_name].dependencies[i] \in completed
    ELSE FALSE

can_execute_step(step_name, g, completed) ==
    IF step_name \in DOMAIN g
    THEN \A i \in DOMAIN g[step_name].dependencies :
            g[step_name].dependencies[i] \in completed
    ELSE FALSE

(***************************************************************************)
(* Output aggregation: generate_outputs, generate_report                   *)
(***************************************************************************)
output_name_to_string(output) ==
    CASE output = "ProjectPath" -> "project_path"
      [] output = "ProjectInfo" -> "project_info"
      [] output = "AnalysisResults" -> "analysis_results"
      [] output = "CopilotPrompt" -> "copilot_prompt"
      [] output = "CopilotResponse" -> "copilot_response"
      [] output = "Report" -> "report"
      [] OTHER -> "custom_output"

ReportSections == {"project_info", "analysis_results", "copilot_response"}

\* generate_report_summary: the text rendering the sections of the report
generate_report_summary(report) ==
    [k \in ReportSections \cap DOMAIN report |-> report[k]]

\* generate_report: the sections found in step_results under their conventional
\* keys, the summary of these sections and the timestamp
generate_report(results) ==
    LET report == [k \in ReportSections \cap DOMAIN results |-> results[k]]
    IN [k \in DOMAIN report \cup {"summary", "generated_at"} |->
            IF k = "summary" THEN generate_report_summary(report)
            ELSE IF k = "generated_at" THEN "now"
            ELSE report[k]]

\* variant: a declared output without a step result is left out of the map
RECURSIVE outputs_from_skip_missing(_, _, _, _)
outputs_from_skip_missing(wf, results, i, outputs) ==
    IF i > Len(wf.outputs) THEN Ok(outputs)
    ELSE LET spec == wf.outputs[i]
             key == output_name_to_string(spec)
             put(v) == [k \in DOMAIN outputs \cup {key} |->
                           IF k = key THEN v ELSE outputs[k]]
         IN IF spec = "Report"
            THEN outputs_from_skip_missing(wf, results, i + 1, put(generate_report(results)))
            ELSE IF spec = "Custom"
            THEN outputs_from_skip_missing(wf, results, i + 1, put("custom"))
            ELSE IF key \in DOMAIN results
            THEN outputs_from_skip_missing(wf, results, i + 1, put(results[key]))
            ELSE outputs_from_skip_missing(wf, results, i + 1, outputs)

\* the loop "for output_spec in &workflow.outputs", from the i-th spec on
RECURSIVE outputs_from(_, _, _, _)
outputs_from(wf, results, i, outputs) ==
    IF i > Len(wf.outputs) THEN Ok(outputs)
    ELSE LET spec == wf.outputs[i]
             key == output_name_to_string(spec)
             put(v) == [k \in DOMAIN outputs \cup {key} |->
                           IF k = key THEN v ELSE outputs[k]]
         IN IF spec = "Report"
            THEN outputs_from(wf, results, i + 1, put(generate_report(results)))
            ELSE IF spec = "Custom"
            THEN outputs_from(wf, results, i + 1, put("custom"))
            ELSE IF key \in DOMAIN results
            THEN outputs_from(wf, results, i + 1, put(results[key]))
            ELSE Err("Execution", key \o " not available")

generate_outputs(wf, results) == outputs_from(wf, results, 1, <<>>)

(***************************************************************************)
(* The execution history: execute_workflow, log_execution_event            *)
(***************************************************************************)
\* variant: every call draws the same id
NewId_constant(history) == 1

\* Uuid::new_v4(): a fresh id (version-4 UUIDs are taken to be unique)
NewId(history) == Len(history) + 1

Some(v) == [tag |-> "Some", value |-> v]

\* the record pushed by execute_workflow, lines 39-49
WorkflowExecution(id, name, ctx) ==
    [id |-> id, workflow_name |-> name, end_time |-> FALSE,
     execution_time |-> None, status |-> "Running", context |-> ctx,
     step_results |-> <<>>, logs |-> <<>>]

\* start_time.elapsed() at line 59, in time units
ElapsedChoices == {0, 1}

LogEntry(level, msg, step) == [level |-> level, msg |-> msg, step |-> step]

\* history.iter_mut().find(|e| e.id == execution_id): first record with the id
FindExecution(history, id) ==
    IF \E i \in DOMAIN history : history[i].id = id
    THEN CHOOSE i \in DOMAIN history :
            /\ history[i].id = id
            /\ \A j \in DOMAIN history : history[j].id = id => i <= j
    ELSE 0

\* variant: the entry goes to the newest record, whatever the id
log_execution_event_newest(history, id, entry) ==
    LET i == Len(history)
    IN IF i = 0 THEN history
       ELSE [history EXCEPT ![i].logs = Append(@, entry)]

log_execution_event(history, id, entry) ==
    LET i == FindExecution(history, id)
    IN IF i = 0 THEN history
       ELSE [history EXCEPT ![i].logs = Append(@, entry)]

\* the id of the run in progress
execution_id == Len(execution_history)

\* get_execution_history: a clone of the history
get_execution_history(history) == [tag |-> "Vec", records |-> history]

\* variant: the newest record is returned, whatever the id
get_execution_newest(history, id) ==
    IF history = <<>> THEN None ELSE Some(history[Len(history)])

\* get_execution: history.iter().find(|e| e.id == execution_id).cloned()
get_execution(history, id) ==
    LET i == FindExecution(history, id)
    IN IF i = 0 THEN None ELSE Some(history[i])

(***************************************************************************)
(* State machine of one execute_workflow call and of its step tasks        *)
(***************************************************************************)
EmptyMap == <<>>

Put(m, k, v) == [x \in DOMAIN m \cup {k} |-> IF x = k THEN v ELSE m[x]]

Remove(m, k) == [x \in DOMAIN m \ {k} |-> m[x]]

\* execute_workflow up to the call of execute_workflow_internal
ExecuteWorkflow ==
    /\ pc = "idle"
    /\ execution_history' = Append(execution_history,
            WorkflowExecution(NewId(execution_history), workflow.name, context))
    /\ pc' = "validate"
    /\ UNCHANGED <<workflow, graph, node_order, ready_steps, running_steps,
                   step_results, completed_steps, tasks, result, bk, context, runs, lookup, registry, observed, polls, dispatcher>>

\* variant: the verdict of validate_workflow is ignored
ValidateWorkflow_ignore_error ==
    /\ pc = "validate"
    /\ pc' = "create_graph"
    /\ UNCHANGED <<workflow, execution_history, graph, node_order, ready_steps,
                   running_steps, step_results, completed_steps, tasks, result,
                   bk, context, runs, lookup, registry, observed, polls, dispatcher>>

\* execute_workflow_internal, step 1: self.validate_workflow(&workflow).await?
ValidateWorkflow ==
    /\ pc = "validate"
    /\ LET v == validate_workflow(workflow)
       IN IF v.tag = "Ok"
          THEN pc' = "create_graph" /\ result' = result
          ELSE pc' = "finalize" /\ result' = v
    /\ UNCHANGED <<workflow, execution_history, graph, node_order, ready_steps,
                   running_steps, step_results, completed_steps, tasks,
                   bk, context, runs, lookup, registry, observed, polls, dispatcher>>

\* execute_workflow_internal, step 2: create_execution_graph; the HashMap's
\* iteration order is unspecified
CreateExecutionGraph ==
    /\ pc = "create_graph"
    /\ \E order \in Perms(StepNames(workflow)) :
          /\ node_order' = order
          /\ graph' = create_execution_graph(workflow, order)
    /\ pc' = "init_ready"
    /\ UNCHANGED <<workflow, execution_history, ready_steps, running_steps,
                   step_results, completed_steps, tasks, result, bk, context, runs, lookup, registry, observed, polls, dispatcher>>

\* the names of order whose node has no dependencies, in order
RECURSIVE InitialReady(_, _, _)
InitialReady(g, order, i) ==
    IF i > Len(order) THEN <<>>
    ELSE (IF g[order[i]].dependencies = <<>> THEN <<order[i]>> ELSE <<>>)
            \o InitialReady(g, order, i + 1)

\* execute_execution_graph, lines 244-254
InitReadySteps ==
    /\ pc = "init_ready"
    /\ ready_steps' = InitialReady(graph, node_order, 1)
    /\ step_results' = EmptyMap
    /\ running_steps' = EmptyMap
    /\ completed_steps' = {}
    /\ node_order' = <<>>
    /\ pc' = "sched"
    /\ UNCHANGED <<workflow, execution_history, graph, tasks, result, bk, context, runs, lookup, registry, observed, polls, dispatcher>>

\* prepare_step_input: the value handed to the agent, or the error
prepare_step_input(step, ctx) ==
    CASE step.input = "ProjectPath" -> Ok("project_path=" \o step.payload)
      [] step.input = "ProjectInfo" ->
            IF ctx.project_found THEN Ok("project_info")
            ELSE Err("Io", "project detection failed")
      [] step.input = "AnalysisResults" ->
            IF "analysis_results" \in DOMAIN ctx.variables
            THEN Ok(ctx.variables["analysis_results"])
            ELSE Err("Execution", "Analysis results not found in context")
      [] step.input = "CopilotPrompt" ->
            IF ctx.project_found THEN Ok("prompt")
            ELSE Err("Io", "project detection failed")
      [] OTHER -> Ok(step.payload)

\* the task spawned for a step; ctx is the clone of the context moved into it
NewTask(step, ctx) ==
    [step |-> step, context |-> ctx, st |-> "attempt", attempt |-> 0,
     invocations |-> 0, sleeps |-> 0, delay |-> 0,
     input |-> None, result |-> None]

\* one iteration of "while let Some(step_name) = ready_steps.pop_front()"
LaunchStep ==
    /\ pc = "sched"
    /\ ready_steps # <<>>
    /\ LET step_name == Head(ready_steps)
       IN /\ ready_steps' = Tail(ready_steps)
          /\ IF step_name \in DOMAIN graph
             THEN /\ tasks' = Append(tasks, NewTask(graph[step_name].step, context))
                  /\ running_steps' = Put(running_steps, step_name, Len(tasks) + 1)
                  /\ graph' = [graph EXCEPT ![step_name].status = "Running"]
                  /\ execution_history' = log_execution_event(execution_history,
                        execution_id, LogEntry("Info", "Started step", step_name))
             ELSE UNCHANGED <<tasks, running_steps, graph, execution_history, lookup, registry, observed, polls, dispatcher>>
    /\ UNCHANGED <<workflow, pc, node_order, step_results, completed_steps, result,
                   bk, context, runs, lookup, registry, observed, polls, dispatcher>>

\* the dependents of step_name that can_execute_step admits, in list order
RECURSIVE ReadyDependents(_, _, _, _)
ReadyDependents(deps, g, completed, i) ==
    IF i > Len(deps) THEN <<>>
    ELSE (IF can_execute_step(deps[i], g, completed) THEN <<deps[i]>> ELSE <<>>)
            \o ReadyDependents(deps, g, completed, i + 1)

\* wait_for_any_step returns Some((step_name, Ok(step_result))): lines 280-298
StepCompleted(step_name) ==
    /\ pc = "sched"
    /\ ready_steps = <<>>
    /\ step_name \in DOMAIN running_steps
    /\ tasks[running_steps[step_name]].st = "finished"
    /\ tasks[running_steps[step_name]].result.tag = "Ok"
    /\ LET step_result == tasks[running_steps[step_name]].result.value
           completed == completed_steps \cup {step_name}
           g == [graph EXCEPT ![step_name].status = "Completed",
                              ![step_name].result = Ok(step_result)]
       IN /\ running_steps' = Remove(running_steps, step_name)
          /\ step_results' = Put(step_results, step_name, step_result)
          /\ completed_steps' = completed
          /\ graph' = g
          /\ execution_history' = log_execution_event(execution_history,
                execution_id, LogEntry("Info", "Completed step", step_name))
          /\ ready_steps' = ReadyDependents(g[step_name].dependents, g, completed, 1)
    /\ UNCHANGED <<workflow, pc, node_order, tasks, result, bk, context, runs, lookup, registry, observed, polls, dispatcher>>

\* wait_for_any_step returns Some((step_name, Err(e))): lines 299-311
StepFailed(step_name) ==
    /\ pc = "sched"
    /\ ready_steps = <<>>
    /\ step_name \in DOMAIN running_steps
    /\ tasks[running_steps[step_name]].st = "finished"
    /\ tasks[running_steps[step_name]].result.tag = "Err"
    /\ LET e == tasks[running_steps[step_name]].result
       IN /\ running_steps' = Remove(running_steps, step_name)
          /\ graph' = [graph EXCEPT ![step_name].status = "Failed"]
          /\ execution_history' = log_execution_event(execution_history,
                execution_id, LogEntry("Error", "Step failed: " \o e.msg, step_name))
          /\ IF ~should_retry_step(graph[step_name].step)
             THEN pc' = "finalize" /\ result' = e
             ELSE pc' = pc /\ result' = result
    /\ UNCHANGED <<workflow, node_order, ready_steps, step_results, completed_steps,
                   tasks, bk, context, runs, lookup, registry, observed, polls, dispatcher>>

\* wait_for_any_step, lines 456-485: no handle of the in-flight set is
\* finished, the 100 ms sleep of the select! wins and None is returned; the
\* scheduler loop starts its next iteration
WaitTimeout ==
    /\ pc = "sched"
    /\ ready_steps = <<>>
    /\ DOMAIN running_steps # {}
    /\ \A n \in DOMAIN running_steps : tasks[running_steps[n]].st # "finished"
    /\ polls < MaxPolls
    /\ polls' = polls + 1
    /\ UNCHANGED <<workflow, pc, execution_history, graph, node_order, ready_steps,
                   running_steps, step_results, completed_steps, tasks, result,
                   bk, context, runs, lookup, registry, observed, dispatcher>>

\* the loop condition fails: Ok(step_results), then generate_outputs and the
\* WorkflowResult of execute_workflow_internal (lines 93-119)
GenerateOutputs ==
    /\ pc = "sched"
    /\ ready_steps = <<>>
    /\ DOMAIN running_steps = {}
    /\ LET outputs == generate_outputs(workflow, step_results)
           i == FindExecution(execution_history, execution_id)
           execution_time ==
                IF i = 0 \/ execution_history[i].execution_time = None THEN 0
                ELSE execution_history[i].execution_time.value
       IN result' = IF outputs.tag = "Err" THEN outputs
                    ELSE [tag |-> "Ok", success |-> TRUE, outputs |-> outputs.value,
                          execution_time |-> execution_time,
                          logs |-> IF i = 0 THEN <<>> ELSE execution_history[i].logs]
    /\ pc' = "finalize"
    /\ UNCHANGED <<workflow, execution_history, graph, node_order, ready_steps,
                   running_steps, step_results, completed_steps, tasks,
                   bk, context, runs, lookup, registry, observed, polls, dispatcher>>

\* variant: the record is finalized as Completed whatever the result
FinalizeExecution_always_completed ==
    /\ pc = "finalize"
    /\ \E elapsed \in ElapsedChoices :
        LET i == FindExecution(execution_history, execution_id)
        IN execution_history' =
            IF i = 0 THEN execution_history
            ELSE [execution_history EXCEPT ![i].end_time = TRUE,
                                           ![i].execution_time = Some(elapsed),
                                           ![i].status = "Completed"]
    /\ pc' = "done"
    /\ UNCHANGED <<workflow, graph, node_order, ready_steps, running_steps,
                   step_results, completed_steps, tasks, result, bk, context, runs, lookup, registry, observed, polls, dispatcher>>

\* execute_workflow, lines 59-74: the record is updated and result returned
FinalizeExecution ==
    /\ pc = "finalize"
    /\ \E elapsed \in ElapsedChoices :
        LET i == FindExecution(execution_history, execution_id)
        IN execution_history' =
            IF i = 0 THEN execution_history
            ELSE [execution_history EXCEPT
                    ![i].end_time = TRUE,
                    ![i].execution_time = Some(elapsed),
                    ![i].status = IF result.tag = "Ok" THEN "Completed" ELSE "Failed"]
    /\ pc' = "done"
    /\ UNCHANGED <<workflow, graph, node_order, ready_steps, running_steps,
                   step_results, completed_steps, tasks, result, bk, context, runs, lookup, registry, observed, polls, dispatcher>>

AgentOutcomes == {"ok", "err", "timeout"}

\* variant: a timeout ends the step at once, without retry
execute_step_attempt_timeout_final(t, outcome, overflow_checks) ==
    LET step == t.step
        input == IF t.attempt = 0 THEN prepare_step_input(step, t.context) ELSE t.input
        task == [t EXCEPT !.input = input]
        attempt == task.attempt + 1
        delay == calculate_backoff(attempt, step.retry_policy, overflow_checks)
    IN IF input.tag = "Err"
       THEN [task EXCEPT !.st = "finished", !.result = input]
       ELSE IF outcome = "ok"
       THEN [task EXCEPT !.attempt = attempt, !.invocations = @ + 1,
                         !.st = "finished", !.result = Ok(step.name)]
       ELSE IF outcome = "timeout"
       THEN [task EXCEPT !.attempt = attempt, !.invocations = @ + 1,
                         !.st = "finished",
                         !.result = Err("Timeout", step.name \o " timed out")]
       ELSE IF attempt >= step.retry_policy.max_attempts
       THEN [task EXCEPT !.attempt = attempt, !.invocations = @ + 1,
                         !.st = "finished", !.result = Err("Other", "agent error")]
       ELSE IF delay.panic
       THEN [task EXCEPT !.attempt = attempt, !.invocations = @ + 1,
                         !.st = "finished", !.result = Err("Join", "panicked")]
       ELSE [task EXCEPT !.attempt = attempt, !.invocations = @ + 1,
                         !.st = "sleeping", !.delay = delay.secs]

\* variant: the error of the first failed attempt is kept and surfaced
execute_step_attempt_first_error(t, outcome, overflow_checks) ==
    LET step == t.step
        input == IF t.attempt = 0 THEN prepare_step_input(step, t.context) ELSE t.input
        task == [t EXCEPT !.input = input]
        attempt == task.attempt + 1
        e == IF outcome = "timeout" THEN Err("Timeout", step.name \o " timed out")
             ELSE Err("Other", "agent error")
        first == IF task.result = None THEN e ELSE task.result
        delay == calculate_backoff(attempt, step.retry_policy, overflow_checks)
    IN IF input.tag = "Err"
       THEN [task EXCEPT !.st = "finished", !.result = input]
       ELSE IF outcome = "ok"
       THEN [task EXCEPT !.attempt = attempt, !.invocations = @ + 1,
                         !.st = "finished", !.result = Ok(step.name)]
       ELSE IF attempt >= step.retry_policy.max_attempts
       THEN [task EXCEPT !.attempt = attempt, !.invocations = @ + 1,
                         !.st = "finished", !.result = first]
       ELSE IF delay.panic
       THEN [task EXCEPT !.attempt = attempt, !.invocations = @ + 1,
                         !.st = "finished", !.result = Err("Join", "panicked")]
       ELSE [task EXCEPT !.attempt = attempt, !.invocations = @ + 1,
                         !.st = "sleeping", !.delay = delay.secs, !.result = first]

\* execute_step from its start or from the top of its loop to the end of one
\* attempt: the input is prepared on entry (line 329); the agent call returns
\* ok or an error or is cut off by the timeout (lines 340-368)
execute_step_attempt(t, outcome, overflow_checks) ==
    LET step == t.step
        input == IF t.attempt = 0 THEN prepare_step_input(step, t.context) ELSE t.input
        task == [t EXCEPT !.input = input]
        attempt == task.attempt + 1
        e == CASE outcome = "timeout" -> Err("Timeout", step.name \o " timed out")
               [] outcome = "uninitialized" ->
                        Err("Configuration", "Agent not initialized")
               [] OTHER -> Err("Other", "agent error")
        delay == calculate_backoff(attempt, step.retry_policy, overflow_checks)
    IN IF input.tag = "Err"
       THEN [task EXCEPT !.st = "finished", !.result = input]
       ELSE IF outcome = "ok"
       THEN [task EXCEPT !.attempt = attempt, !.invocations = @ + 1,
                         !.st = "finished", !.result = Ok(step.name)]
       ELSE IF attempt >= step.retry_policy.max_attempts
       THEN [task EXCEPT !.attempt = attempt, !.invocations = @ + 1,
                         !.st = "finished", !.result = e]
       ELSE IF delay.panic
       THEN [task EXCEPT !.attempt = attempt, !.invocations = @ + 1,
                         !.st = "finished", !.result = Err("Join", "panicked")]
       ELSE [task EXCEPT !.attempt = attempt, !.invocations = @ + 1,
                         !.st = "sleeping", !.delay = delay.secs]

\* execute_step, one iteration of the retry loop up to the sleep (lines 335-369),
\* the first one preceded by prepare_step_input (line 329): the agent is invoked
\* under the step's timeout; overflow_checks is the build profile (TRUE:
\* arithmetic overflow panics)
AgentAttempt(t, outcome, overflow_checks) ==
    /\ t \in DOMAIN tasks
    /\ tasks[t].st = "attempt"
    /\ tasks' = [tasks EXCEPT ![t] = execute_step_attempt(tasks[t], outcome, overflow_checks)]
    /\ UNCHANGED <<workflow, pc, execution_history, graph, node_order, ready_steps,
                   running_steps, step_results, completed_steps, result,
                   bk, context, runs, lookup, registry, observed, polls, dispatcher>>

\* variant: after the sleep the task starts over with its counters reset
BackoffSleep_restart(t) ==
    /\ t \in DOMAIN tasks
    /\ tasks[t].st = "sleeping"
    /\ tasks' = [tasks EXCEPT ![t].st = "attempt", ![t].attempt = 0,
                              ![t].invocations = 0, ![t].delay = 0]
    /\ UNCHANGED <<workflow, pc, execution_history, graph, node_order, ready_steps,
                   running_steps, step_results, completed_steps, result,
                   bk, context, runs, lookup, registry, observed, polls, dispatcher>>

\* execute_step: tokio::time::sleep(delay) returns and the loop starts over
BackoffSleep(t) ==
    /\ t \in DOMAIN tasks
    /\ tasks[t].st = "sleeping"
    /\ tasks' = [tasks EXCEPT ![t].st = "attempt", ![t].sleeps = @ + 1]
    /\ UNCHANGED <<workflow, pc, execution_history, graph, node_order, ready_steps,
                   running_steps, step_results, completed_steps, result,
                   bk, context, runs, lookup, registry, observed, polls, dispatcher>>

(***************************************************************************)
(* Inputs and specifications                                               *)
(***************************************************************************)
NoBackoffCall == [called |-> FALSE]

\* a context with no variables, over a project directory that can be scanned
DefaultContext ==
    [project_path |-> "/project", project_found |-> TRUE, variables |-> EmptyMap]

\* no execute_workflow call besides the one in pc
NoRuns == <<>>

\* no agent call has been observed
NoCalls == <<>>

\* no lookup has been made
NoLookup == [op |-> "none"]

(***************************************************************************)
(* AgentDispatcherImpl: the wrapper the registry puts around an agent      *)
(***************************************************************************)
\* AgentDispatcherImpl::new(agent): agent is Some(agent), initialized false
AgentDispatcherImpl_new == [initialized |-> FALSE]

\* what a call did: the dispatcher after it, whether the wrapped agent was
\* called, and the value returned
Returned(d, reached, res) == [dispatcher |-> d, reached |-> reached, result |-> res]

\* how a call can go: the value does not deserialize, the wrapped agent fails
\* or succeeds, the output does not serialize
InitializeOutcomes == {"ok", "bad_config", "err"}
ExecuteOutcomes == {"ok", "bad_input", "err", "bad_output"}
CleanupOutcomes == {"ok", "err"}

\* variant: the flag is set before the wrapped agent is initialized
dispatcher_initialize_flag_first(d, outcome) ==
    IF d.initialized THEN Returned(d, FALSE, Ok("()"))
    ELSE IF outcome = "bad_config"
    THEN Returned(d, FALSE, Err("Configuration", "invalid config"))
    ELSE IF outcome = "err"
    THEN Returned([d EXCEPT !.initialized = TRUE], TRUE, Err("Other", "agent error"))
    ELSE Returned([d EXCEPT !.initialized = TRUE], TRUE, Ok("()"))

\* AgentDispatcher::initialize of AgentDispatcherImpl
dispatcher_initialize(d, outcome) ==
    IF d.initialized THEN Returned(d, FALSE, Ok("()"))
    ELSE IF outcome = "bad_config"
    THEN Returned(d, FALSE, Err("Configuration", "invalid config"))
    ELSE IF outcome = "err"
    THEN Returned(d, TRUE, Err("Other", "agent error"))
    ELSE Returned([d EXCEPT !.initialized = TRUE], TRUE, Ok("()"))

\* AgentDispatcher::execute of AgentDispatcherImpl
dispatcher_execute(d, outcome) ==
    IF ~d.initialized
    THEN Returned(d, FALSE, Err("Configuration", "Agent not initialized"))
    ELSE IF outcome = "bad_input"
    THEN Returned(d, FALSE, Err("Configuration", "invalid input"))
    ELSE IF outcome = "err"
    THEN Returned(d, TRUE, Err("Other", "agent error"))
    ELSE IF outcome = "bad_output"
    THEN Returned(d, TRUE, Err("Serialization", "invalid output"))
    ELSE Returned(d, TRUE, Ok("output"))

\* AgentDispatcher::cleanup of AgentDispatcherImpl
dispatcher_cleanup(d, outcome) ==
    IF d.initialized
    THEN Returned(d, TRUE, IF outcome = "err" THEN Err("Other", "agent error")
                           ELSE Ok("()"))
    ELSE Returned(d, FALSE, Ok("()"))

WorkflowNames == {"", "wf"}

Min(a, b) == IF a <= b THEN a ELSE b

RECURSIVE SeqSum(_)
SeqSum(s) == IF s = <<>> THEN 0 ELSE Len(Head(s)) + SeqSum(Tail(s))

\* the dependency lists of n steps: at most MaxDeps entries each, edges in all
RECURSIVE DepLists(_, _)
DepLists(n, edges) ==
    IF n = 0 THEN {<<>>}
    ELSE UNION {{Append(rest, dl) :
                    dl \in SeqsUpTo(Names, Min(MaxDeps, edges - SeqSum(rest)))} :
                rest \in DepLists(n - 1, edges)}

\* step names up to renaming: a step takes the name of an earlier step or the
\* next unused name of NameSeq
NamePatterns(n) ==
    {nm \in [1..n -> 1..Len(NameSeq)] :
        \A i \in 1..n : \A k \in 1..(nm[i] - 1) : \E j \in 1..(i - 1) : nm[j] = k}

EngineDepLists == [n \in 1..Len(NameSeq) |-> DepLists(n, EngineMaxEdges)]

DeclaredOutputs == {<<>>, <<"AnalysisResults">>}

RetryPolicy(n) ==
    [max_attempts |-> n, backoff_strategy |-> "Exponential", max_delay |-> DefaultMaxDelay]

BackoffStrategies == {"Fixed", "Linear", "Exponential"}

\* the artifact a step produces: the step named after the analysis results
\* produces them, the others produce project information
StepOutput(name) == IF name = "analysis_results" THEN "AnalysisResults" ELSE "ProjectInfo"

\* the workflows run by the engine: steps named by position, every agent
\* registered, one retry policy for all steps
EngineInput(n, d, ma, outs) ==
    WorkflowDefinition("wf",
        [i \in 1..n |-> WorkflowStep(NameSeq[i], "ag", d[i],
            StepOutput(NameSeq[i]), RetryPolicy(ma))],
        outs)

Init ==
    /\ \E n \in 1..Len(NameSeq) : \E d \in EngineDepLists[n],
          ma \in 1..MaxAttempts, outs \in DeclaredOutputs :
            workflow = EngineInput(n, d, ma, outs)
    /\ pc = "idle"
    /\ execution_history = <<>>
    /\ graph = EmptyMap
    /\ node_order = <<>>
    /\ ready_steps = <<>>
    /\ running_steps = EmptyMap
    /\ step_results = EmptyMap
    /\ completed_steps = {}
    /\ tasks = <<>>
    /\ result = None
    /\ bk = NoBackoffCall
    /\ context = DefaultContext
    /\ runs = NoRuns
    /\ lookup = NoLookup
    /\ dispatcher = AgentDispatcherImpl_new
    /\ polls = 0
    /\ observed = NoCalls
    /\ registry = AgentKeys

Next ==
    \/ ExecuteWorkflow
    \/ ValidateWorkflow
    \/ CreateExecutionGraph
    \/ InitReadySteps
    \/ LaunchStep
    \/ \E n \in DOMAIN running_steps : StepCompleted(n)
    \/ \E n \in DOMAIN running_steps : StepFailed(n)
    \/ GenerateOutputs
    \/ FinalizeExecution
    \/ \E t \in DOMAIN tasks, o \in AgentOutcomes, c \in BOOLEAN : AgentAttempt(t, o, c)
    \/ \E t \in DOMAIN tasks : BackoffSleep(t)

Spec == Init /\ [][Next]_vars

LiveDepLists == [n \in 1..LiveMaxSteps |-> DepLists(n, LiveMaxEdges)]

InitLive ==
    /\ \E n \in 1..LiveMaxSteps : \E d \in LiveDepLists[n],
          ma \in 1..MaxAttempts, outs \in DeclaredOutputs :
            workflow = EngineInput(n, d, ma, outs)
    /\ pc = "idle"
    /\ execution_history = <<>>
    /\ graph = EmptyMap
    /\ node_order = <<>>
    /\ ready_steps = <<>>
    /\ running_steps = EmptyMap
    /\ step_results = EmptyMap
    /\ completed_steps = {}
    /\ tasks = <<>>
    /\ result = None
    /\ bk = NoBackoffCall
    /\ context = DefaultContext
    /\ runs = NoRuns
    /\ lookup = NoLookup
    /\ dispatcher = AgentDispatcherImpl_new
    /\ polls = 0
    /\ observed = NoCalls
    /\ registry = AgentKeys

\* the runtime keeps running some runnable task: the engine's loop, an agent
\* call that returns or is cut off by its timeout, a backoff sleep that ends
SpecLive == InitLive /\ [][Next]_vars /\ WF_vars(Next)

\* the engine with the returns of wait_for_any_step that bring no finished task
NextPoll ==
    \/ Next
    \/ WaitTimeout

SpecPoll == InitLive /\ [][NextPoll]_vars

(***************************************************************************)
(* Validation and graph construction over arbitrary workflows              *)
(***************************************************************************)
ValidateDepLists == [n \in 0..MaxSteps |-> DepLists(n, MaxEdges)]

\* workflows of up to MaxSteps steps, names possibly repeated; step number bad,
\* if there is one, names an agent that is not registered
ValidateInput(n, nm, d, wn, bad) ==
    WorkflowDefinition(wn,
        [i \in 1..n |-> WorkflowStep(NameSeq[nm[i]],
            IF i = bad THEN "nope" ELSE "ag",
            d[i], StepOutput(NameSeq[nm[i]]), DefaultRetryPolicy)],
        <<>>)

InitValidate ==
    /\ \E n \in 0..MaxSteps : \E nm \in NamePatterns(n), d \in ValidateDepLists[n],
          wn \in WorkflowNames, bad \in 0..n :
            workflow = ValidateInput(n, nm, d, wn, bad)
    /\ pc = "idle"
    /\ execution_history = <<>>
    /\ graph = EmptyMap
    /\ node_order = <<>>
    /\ ready_steps = <<>>
    /\ running_steps = EmptyMap
    /\ step_results = EmptyMap
    /\ completed_steps = {}
    /\ tasks = <<>>
    /\ result = None
    /\ bk = NoBackoffCall
    /\ context = DefaultContext
    /\ runs = NoRuns
    /\ lookup = NoLookup
    /\ dispatcher = AgentDispatcherImpl_new
    /\ polls = 0
    /\ observed = NoCalls
    /\ registry = AgentKeys

NextValidate ==
    \/ ExecuteWorkflow
    \/ ValidateWorkflow
    \/ CreateExecutionGraph
    \/ FinalizeExecution

SpecValidate == InitValidate /\ [][NextValidate]_vars

(***************************************************************************)
(* The retry loop of one step: single-step workflows under every policy    *)
(***************************************************************************)
RetryAttemptChoices == (1..MaxAttempts) \cup {MaxAttemptArg}
RetryDelayChoices == {1, DefaultMaxDelay}

RetryInput(ma, strategy, max_delay, outs) ==
    WorkflowDefinition("wf",
        <<WorkflowStep(NameSeq[1], "ag", <<>>, StepOutput(NameSeq[1]),
            [max_attempts |-> ma, backoff_strategy |-> strategy,
             max_delay |-> max_delay])>>,
        outs)

InitRetry ==
    /\ \E ma \in RetryAttemptChoices, strategy \in BackoffStrategies,
          max_delay \in RetryDelayChoices, outs \in DeclaredOutputs :
            workflow = RetryInput(ma, strategy, max_delay, outs)
    /\ pc = "idle"
    /\ execution_history = <<>>
    /\ graph = EmptyMap
    /\ node_order = <<>>
    /\ ready_steps = <<>>
    /\ running_steps = EmptyMap
    /\ step_results = EmptyMap
    /\ completed_steps = {}
    /\ tasks = <<>>
    /\ result = None
    /\ bk = NoBackoffCall
    /\ context = DefaultContext
    /\ runs = NoRuns
    /\ lookup = NoLookup
    /\ dispatcher = AgentDispatcherImpl_new
    /\ polls = 0
    /\ observed = NoCalls
    /\ registry = AgentKeys

SpecRetry == InitRetry /\ [][Next]_vars

(***************************************************************************)
(* calculate_backoff as a function of its arguments                        *)
(***************************************************************************)
BackoffDelayChoices == (0..MaxDelaySecs) \cup {DefaultMaxDelay}

InitBackoff ==
    /\ \E a \in 1..MaxAttemptArg, strategy \in BackoffStrategies,
          max_delay \in BackoffDelayChoices, checks \in BOOLEAN :
            bk = [called |-> FALSE, attempt |-> a,
                  retry_policy |-> [max_attempts |-> DefaultMaxAttempts,
                                    backoff_strategy |-> strategy,
                                    max_delay |-> max_delay],
                  overflow_checks |-> checks,
                  out |-> [panic |-> FALSE, secs |-> 0]]
    /\ workflow = EngineInput(1, <<<<>>>>, 1, <<>>)
    /\ pc = "idle"
    /\ execution_history = <<>>
    /\ graph = EmptyMap
    /\ node_order = <<>>
    /\ ready_steps = <<>>
    /\ running_steps = EmptyMap
    /\ step_results = EmptyMap
    /\ completed_steps = {}
    /\ tasks = <<>>
    /\ result = None
    /\ context = DefaultContext
    /\ runs = NoRuns
    /\ lookup = NoLookup
    /\ dispatcher = AgentDispatcherImpl_new
    /\ polls = 0
    /\ observed = NoCalls
    /\ registry = AgentKeys

\* a call calculate_backoff(attempt, &retry_policy)
CalculateBackoff ==
    /\ bk.called = FALSE
    /\ bk' = [bk EXCEPT !.called = TRUE,
                        !.out = calculate_backoff(bk.attempt, bk.retry_policy,
                                                  bk.overflow_checks)]
    /\ UNCHANGED <<workflow, pc, execution_history, graph, node_order, ready_steps,
                   running_steps, step_results, completed_steps, tasks, result,
                   context, runs, lookup, registry, observed, polls, dispatcher>>

NextBackoff == CalculateBackoff

SpecBackoff == InitBackoff /\ [][NextBackoff]_vars

(***************************************************************************)
(* Whole runs over well-formed and malformed workflows alike               *)
(***************************************************************************)
RejectDepLists == [n \in 0..RejectMaxSteps |-> DepLists(n, RejectMaxEdges)]

\* workflows of up to RejectMaxSteps steps: the name may be empty, step names
\* may repeat, dependencies may dangle or form a cycle, step number bad (if
\* any) names an unregistered agent
RejectInput(n, nm, d, wn, bad, ma) ==
    WorkflowDefinition(wn,
        [i \in 1..n |-> WorkflowStep(NameSeq[nm[i]],
            IF i = bad THEN "nope" ELSE "ag",
            d[i], StepOutput(NameSeq[nm[i]]), RetryPolicy(ma))],
        <<>>)

InitReject ==
    /\ \E n \in 0..RejectMaxSteps : \E nm \in NamePatterns(n), d \in RejectDepLists[n],
          wn \in WorkflowNames, bad \in 0..n, ma \in 1..MaxAttempts :
            workflow = RejectInput(n, nm, d, wn, bad, ma)
    /\ pc = "idle"
    /\ execution_history = <<>>
    /\ graph = EmptyMap
    /\ node_order = <<>>
    /\ ready_steps = <<>>
    /\ running_steps = EmptyMap
    /\ step_results = EmptyMap
    /\ completed_steps = {}
    /\ tasks = <<>>
    /\ result = None
    /\ bk = NoBackoffCall
    /\ context = DefaultContext
    /\ runs = NoRuns
    /\ lookup = NoLookup
    /\ dispatcher = AgentDispatcherImpl_new
    /\ polls = 0
    /\ observed = NoCalls
    /\ registry = AgentKeys

SpecReject == InitReject /\ [][Next]_vars

(***************************************************************************)
(* Several execute_workflow calls on one engine: the execution history     *)
(***************************************************************************)
\* log entries a run emits (lines 274, 305)
RunEvents ==
    {LogEntry("Info", "Started step", NameSeq[1]),
     LogEntry("Error", "Step failed: agent error", NameSeq[1])}

\* a call that has not started: emitted is the sequence of entries the call
\* has passed to log_execution_event, result what it returns
IdleRun == [pc |-> "idle", id |-> 0, emitted |-> <<>>, result |-> None]

InitHistory ==
    /\ runs = [r \in 1..MaxRuns |-> IdleRun]
    /\ lookup = NoLookup
    /\ dispatcher = AgentDispatcherImpl_new
    /\ polls = 0
    /\ observed = NoCalls
    /\ registry = AgentKeys
    /\ workflow = EngineInput(1, <<<<>>>>, 1, <<>>)
    /\ pc = "idle"
    /\ execution_history = <<>>
    /\ graph = EmptyMap
    /\ node_order = <<>>
    /\ ready_steps = <<>>
    /\ running_steps = EmptyMap
    /\ step_results = EmptyMap
    /\ completed_steps = {}
    /\ tasks = <<>>
    /\ result = None
    /\ bk = NoBackoffCall
    /\ context = DefaultContext

\* execute_workflow of call r, lines 33-54: a new id and a new record
RunStart(r) ==
    /\ runs[r].pc = "idle"
    /\ LET id == NewId(execution_history)
       IN /\ execution_history' = Append(execution_history,
                WorkflowExecution(id, workflow.name, context))
          /\ runs' = [runs EXCEPT ![r].pc = "running", ![r].id = id]
    /\ UNCHANGED <<workflow, pc, graph, node_order, ready_steps, running_steps,
                   step_results, completed_steps, tasks, result, bk, context, lookup, registry, observed, polls, dispatcher>>

\* call r logs an event of its run: log_execution_event(execution_id, ..)
RunLog(r, entry) ==
    /\ runs[r].pc = "running"
    /\ Len(runs[r].emitted) < MaxEvents
    /\ execution_history' = log_execution_event(execution_history, runs[r].id, entry)
    /\ runs' = [runs EXCEPT ![r].emitted = Append(@, entry)]
    /\ UNCHANGED <<workflow, pc, graph, node_order, ready_steps, running_steps,
                   step_results, completed_steps, tasks, result, bk, context, lookup, registry, observed, polls, dispatcher>>

\* execute_workflow of call r, lines 56-74: execute_workflow_internal has
\* returned res, the record of the run is finalized and res returned
RunFinish(r, res) ==
    /\ runs[r].pc = "running"
    /\ \E elapsed \in ElapsedChoices :
        LET i == FindExecution(execution_history, runs[r].id)
        IN execution_history' =
            IF i = 0 THEN execution_history
            ELSE [execution_history EXCEPT
                    ![i].end_time = TRUE,
                    ![i].execution_time = Some(elapsed),
                    ![i].status = IF res.tag = "Ok" THEN "Completed" ELSE "Failed"]
    /\ runs' = [runs EXCEPT ![r].pc = "returned", ![r].result = res]
    /\ UNCHANGED <<workflow, pc, graph, node_order, ready_steps, running_steps,
                   step_results, completed_steps, tasks, result, bk, context, lookup, registry, observed, polls, dispatcher>>

RunResults == {Ok("unit"), Err("Other", "agent error")}

NextHistory ==
    \/ \E r \in DOMAIN runs : RunStart(r)
    \/ \E r \in DOMAIN runs, entry \in RunEvents : RunLog(r, entry)
    \/ \E r \in DOMAIN runs, res \in RunResults : RunFinish(r, res)

SpecHistory == InitHistory /\ [][NextHistory]_vars

(***************************************************************************)
(* The chain detect -> analyze -> report, agents succeeding or timing out  *)
(***************************************************************************)
\* analyze yields the output analyze_output; every step has max_attempts ma
ChainInput(analyze_output, ma) ==
    WorkflowDefinition("wf",
        <<WorkflowStep("detect", "ag", <<>>, "ProjectInfo", RetryPolicy(ma)),
          WorkflowStep("analyze", "ag", <<"detect">>, analyze_output, RetryPolicy(ma)),
          WorkflowStep("report", "ag", <<"analyze">>, "Report", RetryPolicy(ma))>>,
        <<"Report">>)

InitChain ==
    /\ \E analyze_output \in {"AnalysisResults", "Custom"}, ma \in 1..MaxAttempts :
            workflow = ChainInput(analyze_output, ma)
    /\ pc = "idle"
    /\ execution_history = <<>>
    /\ graph = EmptyMap
    /\ node_order = <<>>
    /\ ready_steps = <<>>
    /\ running_steps = EmptyMap
    /\ step_results = EmptyMap
    /\ completed_steps = {}
    /\ tasks = <<>>
    /\ result = None
    /\ bk = NoBackoffCall
    /\ context = DefaultContext
    /\ runs = NoRuns
    /\ lookup = NoLookup
    /\ dispatcher = AgentDispatcherImpl_new
    /\ polls = 0
    /\ observed = NoCalls
    /\ registry = AgentKeys

\* an agent call returns a result or is cut off by the step timeout
ChainOutcomes == {"ok", "timeout"}

NextChain ==
    \/ ExecuteWorkflow
    \/ ValidateWorkflow
    \/ CreateExecutionGraph
    \/ InitReadySteps
    \/ LaunchStep
    \/ \E n \in DOMAIN running_steps : StepCompleted(n)
    \/ \E n \in DOMAIN running_steps : StepFailed(n)
    \/ GenerateOutputs
    \/ FinalizeExecution
    \/ \E t \in DOMAIN tasks, o \in ChainOutcomes, c \in BOOLEAN : AgentAttempt(t, o, c)
    \/ \E t \in DOMAIN tasks : BackoffSleep(t)

SpecChain == InitChain /\ [][NextChain]_vars

(***************************************************************************)
(* Step inputs and declared outputs: a producer step and a consumer step   *)
(***************************************************************************)
OutputKinds == {"ProjectInfo", "AnalysisResults", "Report", "Custom"}

DataOutputs == SeqsUpTo(OutputKinds, MaxOutputs)

InputKinds == {"Custom", "AnalysisResults"}

\* WorkflowContext.variables as handed to execute_workflow
DataContexts ==
    {DefaultContext,
     [DefaultContext EXCEPT !.variables = Put(EmptyMap, "analysis_results", "from_context")]}

\* a producer named producer and the consumer "c" with input kind input and
\* dependencies deps
DataInput(producer, input, deps, outs, ma) ==
    WorkflowDefinition("wf",
        <<WorkflowStep(producer, "ag", <<>>, StepOutput(producer), RetryPolicy(ma)),
          [WorkflowStep("c", "ag", deps, StepOutput("c"), RetryPolicy(ma))
              EXCEPT !.input = input]>>,
        outs)

InitData ==
    /\ \E producer \in {"a", "analysis_results"}, input \in InputKinds,
          outs \in DataOutputs, ma \in 1..MaxAttempts :
            \E deps \in {<<>>, <<producer>>} :
                workflow = DataInput(producer, input, deps, outs, ma)
    /\ context \in DataContexts
    /\ pc = "idle"
    /\ execution_history = <<>>
    /\ graph = EmptyMap
    /\ node_order = <<>>
    /\ ready_steps = <<>>
    /\ running_steps = EmptyMap
    /\ step_results = EmptyMap
    /\ completed_steps = {}
    /\ tasks = <<>>
    /\ result = None
    /\ bk = NoBackoffCall
    /\ runs = NoRuns
    /\ lookup = NoLookup
    /\ dispatcher = AgentDispatcherImpl_new
    /\ polls = 0
    /\ observed = NoCalls
    /\ registry = AgentKeys

SpecData == InitData /\ [][Next]_vars

(***************************************************************************)
(* Lookups over the history while calls of execute_workflow come and go    *)
(***************************************************************************)
\* the ids asked for: those of the records and one that no record has
LookupIds == 1..(MaxRuns + 1)

InitLookup ==
    /\ runs = [r \in 1..MaxRuns |-> IdleRun]
    /\ lookup = NoLookup
    /\ dispatcher = AgentDispatcherImpl_new
    /\ polls = 0
    /\ observed = NoCalls
    /\ registry = AgentKeys
    /\ workflow = EngineInput(1, <<<<>>>>, 1, <<>>)
    /\ context \in DataContexts
    /\ pc = "idle"
    /\ execution_history = <<>>
    /\ graph = EmptyMap
    /\ node_order = <<>>
    /\ ready_steps = <<>>
    /\ running_steps = EmptyMap
    /\ step_results = EmptyMap
    /\ completed_steps = {}
    /\ tasks = <<>>
    /\ result = None
    /\ bk = NoBackoffCall

GetExecutionHistory ==
    /\ lookup' = [op |-> "get_execution_history", id |-> 0,
                  value |-> get_execution_history(execution_history)]
    /\ UNCHANGED <<workflow, pc, execution_history, graph, node_order, ready_steps,
                   running_steps, step_results, completed_steps, tasks, result,
                   bk, context, runs, registry, observed, polls, dispatcher>>

GetExecution(id) ==
    /\ lookup' = [op |-> "get_execution", id |-> id,
                  value |-> get_execution(execution_history, id)]
    /\ UNCHANGED <<workflow, pc, execution_history, graph, node_order, ready_steps,
                   running_steps, step_results, completed_steps, tasks, result,
                   bk, context, runs, registry, observed, polls, dispatcher>>

NextLookup ==
    \/ \E r \in DOMAIN runs : RunStart(r)
    \/ \E r \in DOMAIN runs, res \in RunResults : RunFinish(r, res)
    \/ GetExecutionHistory
    \/ \E id \in LookupIds : GetExecution(id)

SpecLookup == InitLookup /\ [][NextLookup]_vars

(***************************************************************************)
(* Engines with and without registered agents, workflows with and without  *)
(* steps                                                                   *)
(***************************************************************************)
RegistryInput(n, d, wn, ma, outs) ==
    [EngineInput(n, d, ma, outs) EXCEPT !.name = wn]

InitRegistry ==
    /\ registry \in SUBSET AgentKeys
    /\ \E n \in 0..LiveMaxSteps : \E d \in DepLists(n, LiveMaxEdges),
          wn \in WorkflowNames, ma \in 1..MaxAttempts, outs \in DeclaredOutputs :
            workflow = RegistryInput(n, d, wn, ma, outs)
    /\ pc = "idle"
    /\ execution_history = <<>>
    /\ graph = EmptyMap
    /\ node_order = <<>>
    /\ ready_steps = <<>>
    /\ running_steps = EmptyMap
    /\ step_results = EmptyMap
    /\ completed_steps = {}
    /\ tasks = <<>>
    /\ result = None
    /\ bk = NoBackoffCall
    /\ context = DefaultContext
    /\ runs = NoRuns
    /\ lookup = NoLookup
    /\ dispatcher = AgentDispatcherImpl_new
    /\ polls = 0
    /\ observed = NoCalls

SpecRegistry == InitRegistry /\ [][Next]_vars

(***************************************************************************)
(* Two tasks of one step followed attempt by attempt: their agent calls    *)
(* succeed together and fail together, by an agent error or by the timeout *)
(***************************************************************************)
StepAttemptChoices == (0..MaxAttempts) \cup {MaxAttemptArg}

\* the outcomes of one attempt of the two tasks: both succeed or both fail
PairedOutcomes ==
    {p \in AgentOutcomes \X AgentOutcomes : (p[1] = "ok") <=> (p[2] = "ok")}

InitStep ==
    /\ \E ma \in StepAttemptChoices, strategy \in BackoffStrategies,
          max_delay \in RetryDelayChoices :
            /\ workflow = RetryInput(ma, strategy, max_delay, <<>>)
            /\ tasks = <<NewTask(workflow.steps[1], DefaultContext),
                         NewTask(workflow.steps[1], DefaultContext)>>
    /\ observed = NoCalls
    /\ pc = "idle"
    /\ execution_history = <<>>
    /\ graph = EmptyMap
    /\ node_order = <<>>
    /\ ready_steps = <<>>
    /\ running_steps = EmptyMap
    /\ step_results = EmptyMap
    /\ completed_steps = {}
    /\ result = None
    /\ bk = NoBackoffCall
    /\ context = DefaultContext
    /\ runs = NoRuns
    /\ lookup = NoLookup
    /\ dispatcher = AgentDispatcherImpl_new
    /\ polls = 0
    /\ registry = AgentKeys

\* both tasks run one attempt; observed keeps the outcomes of their first and
\* of their latest agent call
PairedAttempt(outcomes, overflow_checks) ==
    /\ \A t \in DOMAIN tasks : tasks[t].st = "attempt"
    /\ tasks' = [t \in DOMAIN tasks |->
                    execute_step_attempt(tasks[t], outcomes[t], overflow_checks)]
    /\ observed' = IF observed = NoCalls
                   THEN [first |-> outcomes, last |-> outcomes]
                   ELSE [observed EXCEPT !.last = outcomes]
    /\ UNCHANGED <<workflow, pc, execution_history, graph, node_order, ready_steps,
                   running_steps, step_results, completed_steps, result,
                   bk, context, runs, lookup, registry, polls, dispatcher>>

\* tokio::time::sleep(delay) returns in both tasks
PairedSleep ==
    /\ \A t \in DOMAIN tasks : tasks[t].st = "sleeping"
    /\ tasks' = [t \in DOMAIN tasks |->
                    [tasks[t] EXCEPT !.st = "attempt", !.sleeps = @ + 1]]
    /\ UNCHANGED <<workflow, pc, execution_history, graph, node_order, ready_steps,
                   running_steps, step_results, completed_steps, result,
                   bk, context, runs, lookup, registry, observed, polls, dispatcher>>

NextStep ==
    \/ \E outcomes \in PairedOutcomes, c \in BOOLEAN : PairedAttempt(outcomes, c)
    \/ PairedSleep

SpecStep == InitStep /\ [][NextStep]_vars

(***************************************************************************)
(* One step with a ProjectPath or Custom input, run under contexts with    *)
(* different project paths                                                 *)
(***************************************************************************)
ProjectPaths == {"/project", "/other"}

Payloads == {"custom", "payload"}

\* the inputs of the step: ProjectPath(path) and Custom(value)
StepInputs ==
    {[input |-> "ProjectPath", payload |-> path] : path \in ProjectPaths}
        \cup {[input |-> "Custom", payload |-> value] : value \in Payloads}

InputStep(in, ma) ==
    [WorkflowStep(NameSeq[1], "ag", <<>>, StepOutput(NameSeq[1]), RetryPolicy(ma))
        EXCEPT !.input = in.input, !.payload = in.payload]

InitInput ==
    /\ \E in \in StepInputs, ma \in 1..MaxAttempts :
            workflow = WorkflowDefinition("wf", <<InputStep(in, ma)>>, <<>>)
    /\ \E path \in ProjectPaths : context = [DefaultContext EXCEPT !.project_path = path]
    /\ pc = "idle"
    /\ execution_history = <<>>
    /\ graph = EmptyMap
    /\ node_order = <<>>
    /\ ready_steps = <<>>
    /\ running_steps = EmptyMap
    /\ step_results = EmptyMap
    /\ completed_steps = {}
    /\ tasks = <<>>
    /\ result = None
    /\ bk = NoBackoffCall
    /\ runs = NoRuns
    /\ lookup = NoLookup
    /\ dispatcher = AgentDispatcherImpl_new
    /\ polls = 0
    /\ registry = AgentKeys
    /\ observed = NoCalls

SpecInput == InitInput /\ [][Next]_vars

(***************************************************************************)
(* The engine over a registry filled by register_agent                     *)
(***************************************************************************)
\* the arm of the match in execute_step (lines 340-367) taken for what
\* agent.execute returned
DispatchedOutcome(res) ==
    IF res.tag = "Ok" THEN "ok"
    ELSE IF res.msg = "Agent not initialized" THEN "uninitialized"
    ELSE "err"

\* an attempt of execute_step on the dispatcher get_agent returns, with a
\* wrapped agent whose execute succeeds
RegisteredAttempt(t) ==
    \E c \in BOOLEAN :
        AgentAttempt(t, DispatchedOutcome(dispatcher_execute(dispatcher, "ok").result), c)

\* the registry hands out &dyn AgentDispatcher only (get_agent) and
\* initialize takes &mut self: no call of the engine or the registry changes
\* the dispatcher made by register_agent
NextRegistered ==
    \/ ExecuteWorkflow
    \/ ValidateWorkflow
    \/ CreateExecutionGraph
    \/ InitReadySteps
    \/ LaunchStep
    \/ \E n \in DOMAIN running_steps : StepFailed(n)
    \/ GenerateOutputs
    \/ FinalizeExecution
    \/ \E t \in DOMAIN tasks : RegisteredAttempt(t)
    \/ \E t \in DOMAIN tasks : BackoffSleep(t)

SpecRegistered == Init /\ [][NextRegistered]_vars

(***************************************************************************)
(* One dispatcher under any sequence of initialize, execute and cleanup    *)
(***************************************************************************)
Call(op, r) ==
    [op |-> op, reached |-> r.reached, result |-> r.result,
     initialized |-> r.dispatcher.initialized]

InitDispatcher ==
    /\ workflow = WorkflowDefinition("wf", <<>>, <<>>)
    /\ pc = "idle"
    /\ execution_history = <<>>
    /\ graph = EmptyMap
    /\ node_order = <<>>
    /\ ready_steps = <<>>
    /\ running_steps = EmptyMap
    /\ step_results = EmptyMap
    /\ completed_steps = {}
    /\ tasks = <<>>
    /\ result = None
    /\ bk = NoBackoffCall
    /\ context = DefaultContext
    /\ runs = NoRuns
    /\ lookup = NoLookup
    /\ dispatcher = AgentDispatcherImpl_new
    /\ polls = 0
    /\ observed = NoCalls
    /\ registry = AgentKeys

DispatcherCall(op, r) ==
    /\ Len(observed) < MaxCalls
    /\ dispatcher' = r.dispatcher
    /\ observed' = Append(observed, Call(op, r))
    /\ UNCHANGED <<workflow, pc, execution_history, graph, node_order, ready_steps,
                   running_steps, step_results, completed_steps, tasks, result,
                   bk, context, runs, lookup, registry, polls>>

DispatcherInitialize(outcome) ==
    DispatcherCall("initialize", dispatcher_initialize(dispatcher, outcome))

DispatcherExecute(outcome) ==
    DispatcherCall("execute", dispatcher_execute(dispatcher, outcome))

DispatcherCleanup(outcome) ==
    DispatcherCall("cleanup", dispatcher_cleanup(dispatcher, outcome))

NextDispatcher ==
    \/ \E o \in InitializeOutcomes : DispatcherInitialize(o)
    \/ \E o \in ExecuteOutcomes : DispatcherExecute(o)
    \/ \E o \in CleanupOutcomes : DispatcherCleanup(o)

SpecDispatcher == InitDispatcher /\ [][NextDispatcher]_vars

(***************************************************************************)
(* Properties of validation (checked under SpecValidate)                   *)
(***************************************************************************)
\* validate_workflow has returned for the submitted workflow
Validated == pc \notin {"idle", "validate"}

ConfigurationError == result.tag = "Err" /\ result.kind = "Configuration"

UniqueNames(wf) ==
    \A i, j \in DOMAIN wf.steps : i # j => wf.steps[i].name # wf.steps[j].name

DepsResolve(wf) ==
    \A i \in DOMAIN wf.steps : \A k \in DOMAIN wf.steps[i].dependencies :
        \E j \in DOMAIN wf.steps : wf.steps[j].name = wf.steps[i].dependencies[k]

AgentsExist(wf) == \A i \in DOMAIN wf.steps : wf.steps[i].agent \in registry

\* the dependency relation: <<n, d>> when step n lists d as a dependency
DependsOn(wf) ==
    UNION {{<<wf.steps[i].name, wf.steps[i].dependencies[k]>> :
                k \in DOMAIN wf.steps[i].dependencies} : i \in DOMAIN wf.steps}

RECURSIVE TransitiveClosure(_)
TransitiveClosure(R) ==
    LET R2 == R \cup UNION {{<<p[1], q[2]>> : q \in {x \in R : x[1] = p[2]}} : p \in R}
    IN IF R2 = R THEN R ELSE TransitiveClosure(R2)

Cyclic(wf) == \E p \in TransitiveClosure(DependsOn(wf)) : p[1] = p[2]

WellFormed(wf) ==
    wf.name # "" /\ UniqueNames(wf) /\ DepsResolve(wf) /\ AgentsExist(wf)

\* C8: a workflow with a non-empty name, unique step names, resolving
\* dependencies and registered agents passes validation exactly when its
\* dependency relation is acyclic; with any cycle, a self-dependency included,
\* validation returns the Configuration error "Circular dependencies detected",
\* whatever the order of the steps and of their dependency lists.
C8_AcyclicIffValid ==
    (Validated /\ WellFormed(workflow)) =>
        IF Cyclic(workflow)
        THEN result = Err("Configuration", "Circular dependencies detected")
        ELSE result.tag # "Err"

\* three steps on one cycle, none depending on itself, rejected as circular
C8_Witness ==
    /\ Validated
    /\ WellFormed(workflow)
    /\ Len(workflow.steps) = 3
    /\ \A i \in DOMAIN workflow.steps :
          /\ Len(workflow.steps[i].dependencies) = 1
          /\ workflow.steps[i].dependencies[1] # workflow.steps[i].name
          /\ <<workflow.steps[i].name, workflow.steps[i].name>>
                \in TransitiveClosure(DependsOn(workflow))
    /\ result = Err("Configuration", "Circular dependencies detected")

\* C9: validation fails with a Configuration error whenever two steps share a
\* name, and the duplicate-name check never rejects pairwise distinct names.
C9_DuplicateNames ==
    Validated =>
        IF UniqueNames(workflow)
        THEN result # Err("Configuration", "Duplicate step names found")
        ELSE ConfigurationError

\* a named workflow with a repeated step name, rejected by the duplicate check
C9_Witness ==
    /\ Validated
    /\ workflow.name # ""
    /\ ~UniqueNames(workflow)
    /\ result = Err("Configuration", "Duplicate step names found")

\* C10: validation fails with a Configuration error whenever a step depends on
\* a name that is not a step of the workflow; hence every dependency name in a
\* graph built by create_execution_graph is a key of that graph.
C10_DanglingDependency ==
    /\ (Validated /\ ~DepsResolve(workflow)) => ConfigurationError
    /\ \A n \in DOMAIN graph : \A k \in DOMAIN graph[n].dependencies :
          graph[n].dependencies[k] \in DOMAIN graph

\* a named workflow with distinct step names and a dangling dependency,
\* rejected by the dependency check
C10_Witness ==
    /\ Validated
    /\ workflow.name # ""
    /\ UniqueNames(workflow)
    /\ ~DepsResolve(workflow)
    /\ result = Err("Configuration", "Step depends on non-existent step")

(***************************************************************************)
(* Properties of the scheduler (checked under Spec)                        *)
(***************************************************************************)
\* this step launches node n: its status becomes Running, or a further task
\* is spawned for it
Launched(n) ==
    /\ n \in DOMAIN graph
    /\ n \in DOMAIN graph'
    /\ graph'[n].status = "Running"
    /\ \/ graph[n].status # "Running"
       \/ /\ Len(tasks') > Len(tasks)
          /\ tasks'[Len(tasks')].step.name = n

\* C1: a step becomes Running only when every one of its dependencies is
\* Completed.
C1_RunningOnlyAfterDependencies ==
    [][\A n \in Names : Launched(n) =>
            \A k \in DOMAIN graph[n].dependencies :
                /\ graph[n].dependencies[k] \in DOMAIN graph
                /\ graph[graph[n].dependencies[k]].status = "Completed"]_vars

\* a step with two distinct dependencies is Running
C1_Witness ==
    \E n \in DOMAIN graph :
        /\ graph[n].status = "Running"
        /\ Cardinality(Range(graph[n].dependencies)) = 2

\* the tasks spawned for step n
TasksOf(n) == {t \in DOMAIN tasks : tasks[t].step.name = n}

\* C2: in a run of a validated workflow, whose dependency lists may repeat a
\* name, every step is launched at most once: no second task is spawned for it.
C2_LaunchedAtMostOnce == \A n \in Names : Cardinality(TasksOf(n)) <= 1

\* C3: when a step of the run has resolved Failed, the finished run returns an
\* error (never a WorkflowResult with success = true) and its record is
\* finalized Failed, whatever the step's output kind and the declared outputs.
C3_FailedStepFailsRun ==
    (pc = "done" /\ \E n \in DOMAIN graph : graph[n].status = "Failed") =>
        /\ result.tag = "Err"
        /\ FindExecution(execution_history, execution_id) # 0
        /\ execution_history[FindExecution(execution_history, execution_id)].status
              = "Failed"

\* C4: the scheduler never leaves its loop for output aggregation (ready queue
\* and in-flight set both empty) while a transitive dependent of a Failed step
\* is still Pending.
C4_NoPendingDependentAtExit ==
    (pc = "sched" /\ ready_steps = <<>> /\ DOMAIN running_steps = {}) =>
        ~\E f \in DOMAIN graph, d \in DOMAIN graph :
            /\ graph[f].status = "Failed"
            /\ <<d, f>> \in TransitiveClosure(DependsOn(workflow))
            /\ graph[d].status = "Pending"

(***************************************************************************)
(* Properties of retry and backoff (checked under SpecRetry, SpecBackoff)  *)
(***************************************************************************)
\* C5: a step with max_attempts = N >= 1 whose every attempt fails has had its
\* agent invoked exactly N times, with exactly N - 1 backoff sleeps, when its
\* execution ends in failure.
C5_ExactlyNAttempts ==
    \A t \in DOMAIN tasks :
        (/\ tasks[t].st = "finished"
         /\ tasks[t].result.tag = "Err"
         /\ tasks[t].step.retry_policy.max_attempts >= 1) =>
            /\ tasks[t].invocations = tasks[t].step.retry_policy.max_attempts
            /\ tasks[t].sleeps = tasks[t].step.retry_policy.max_attempts - 1

\* 2^e >= cap, decided by halving the cap
RECURSIVE PowerReaches(_, _)
PowerReaches(e, cap) ==
    cap <= 1 \/ (e >= 1 /\ PowerReaches(e - 1, (cap + 1) \div 2))

RECURSIVE TwoToThe(_)
TwoToThe(e) == IF e = 0 THEN 1 ELSE 2 * TwoToThe(e - 1)

\* min(2^e, cap)
CappedPow2(e, cap) == IF PowerReaches(e, cap) THEN cap ELSE TwoToThe(e)

\* the delay in seconds stated for attempt a >= 1
StatedBackoff(a, retry_policy) ==
    CASE retry_policy.backoff_strategy = "Fixed" -> 1
      [] retry_policy.backoff_strategy = "Linear" -> a
      [] retry_policy.backoff_strategy = "Exponential" ->
            CappedPow2(a - 1, retry_policy.max_delay)

\* C6: for every attempt number a >= 1 calculate_backoff returns 1 second for
\* Fixed, a seconds for Linear and min(2^(a-1), maxDelay) seconds for
\* Exponential.
C6_BackoffValue ==
    (bk.called /\ bk.attempt >= 1) =>
        /\ ~bk.out.panic
        /\ bk.out.secs = StatedBackoff(bk.attempt, bk.retry_policy)

\* C7: under the Linear and the Exponential strategy the delay slept between
\* attempts never exceeds the policy's max_delay, whatever the attempt number.
C7_DelayWithinMaxDelay ==
    \A t \in DOMAIN tasks :
        (/\ tasks[t].st = "sleeping"
         /\ tasks[t].step.retry_policy.backoff_strategy \in {"Linear", "Exponential"}) =>
            tasks[t].delay <= tasks[t].step.retry_policy.max_delay

(***************************************************************************)
(* Properties of whole runs (checked under SpecReject, Spec)               *)
(***************************************************************************)
\* the workflow has one of the five defects validation looks for
Malformed(wf) == ~WellFormed(wf) \/ Cyclic(wf)

\* C11: when validation rejects the workflow (empty name, duplicate step name,
\* dangling dependency, unknown agent or cycle), the call returns that
\* Configuration error with no graph built, no step task launched, no agent
\* invoked and no backoff slept; and no agent runs before validation is over.
C11_RejectedBeforeExecution ==
    /\ (Validated /\ Malformed(workflow)) =>
          /\ ConfigurationError
          /\ graph = EmptyMap
          /\ tasks = <<>>
          /\ ready_steps = <<>>
          /\ DOMAIN running_steps = {}
    /\ pc \in {"idle", "validate"} => tasks = <<>>

\* a run rejected for an unregistered agent alone has returned the error
C11_Witness ==
    /\ pc = "done"
    /\ workflow.name # ""
    /\ UniqueNames(workflow)
    /\ DepsResolve(workflow)
    /\ ~AgentsExist(workflow)
    /\ result = Err("Configuration", "Agent not found for step")
    /\ tasks = <<>>

\* C12: a call appends exactly one record, Running and without end time,
\* before validation and before any step is launched; the record's status and
\* end time are written exactly once, when the run has terminated, and the
\* final status is Completed exactly when the call returns Ok, else Failed.
C12_RecordLifecycle ==
    [][/\ Len(execution_history') # Len(execution_history) =>
            /\ pc = "idle"
            /\ pc' = "validate"
            /\ graph = EmptyMap
            /\ tasks = <<>>
            /\ Len(execution_history') = Len(execution_history) + 1
            /\ SubSeq(execution_history', 1, Len(execution_history)) = execution_history
            /\ execution_history'[Len(execution_history')].status = "Running"
            /\ ~execution_history'[Len(execution_history')].end_time
       /\ pc' # "idle" => Len(execution_history') = 1
       /\ \A i \in DOMAIN execution_history :
            (\/ execution_history'[i].status # execution_history[i].status
             \/ execution_history'[i].end_time # execution_history[i].end_time) =>
                /\ pc = "finalize"
                /\ pc' = "done"
                /\ execution_history[i].status = "Running"
                /\ ~execution_history[i].end_time
       /\ pc' = "done" =>
            /\ execution_history'[1].end_time
            /\ execution_history'[1].status =
                  IF result'.tag = "Ok" THEN "Completed" ELSE "Failed"
       /\ pc' \notin {"idle", "done"} =>
            /\ execution_history'[1].status = "Running"
            /\ ~execution_history'[1].end_time]_vars

\* a run that failed in output aggregation is recorded Failed with an end time
C12_Witness ==
    /\ pc = "done"
    /\ result.tag = "Err"
    /\ result.kind = "Execution"
    /\ execution_history[1].status = "Failed"
    /\ execution_history[1].end_time

(***************************************************************************)
(* Properties of the execution history (checked under SpecHistory)         *)
(***************************************************************************)
StartedRuns == {r \in DOMAIN runs : runs[r].pc # "idle"}

\* the records holding the id of run r
RecordsOf(r) == {i \in DOMAIN execution_history : execution_history[i].id = runs[r].id}

\* C13: executing the same workflow and context several times on one engine
\* gives each call a record of its own: the ids of the records are pairwise
\* distinct and the history is as long as the number of calls started.
C13_DistinctRecords ==
    /\ \A i, j \in DOMAIN execution_history :
          i # j => execution_history[i].id # execution_history[j].id
    /\ Len(execution_history) = Cardinality(StartedRuns)
    /\ \A r \in StartedRuns : Cardinality(RecordsOf(r)) = 1

\* two calls for the same workflow have started: two records, two ids
C13_Witness ==
    /\ Cardinality(StartedRuns) = 2
    /\ Len(execution_history) = 2
    /\ execution_history[1].workflow_name = execution_history[2].workflow_name
    /\ execution_history[1].id # execution_history[2].id

\* C19: with runs interleaved on one engine, the log of the record of run X
\* is exactly the sequence of entries X emitted, the finalization of X shows
\* in X's record alone, and nothing of another run is lost or overwritten.
C19_RunsDoNotInterfere ==
    \A r \in StartedRuns : \A i \in RecordsOf(r) :
        /\ execution_history[i].logs = runs[r].emitted
        /\ execution_history[i].end_time = (runs[r].pc = "returned")
        /\ execution_history[i].status =
              IF runs[r].pc = "running" THEN "Running"
              ELSE IF runs[r].result.tag = "Ok" THEN "Completed" ELSE "Failed"

\* the older run logged after the newer one started and is still Running
\* while the newer one has been finalized
C19_Witness ==
    /\ Len(execution_history) = 2
    /\ \E r, q \in StartedRuns :
          /\ runs[r].id = execution_history[1].id
          /\ runs[q].id = execution_history[2].id
          /\ runs[r].pc = "running"
          /\ runs[q].pc = "returned"
          /\ Len(execution_history[1].logs) = 2
          /\ Len(execution_history[2].logs) = 1
          /\ execution_history[1].logs[2] # execution_history[2].logs[1]

(***************************************************************************)
(* Properties of the chain scenario (checked under SpecChain)              *)
(***************************************************************************)
\* the report shows value v in one of its sections
ReportShows(report, v) == \E k \in DOMAIN report \cap ReportSections : report[k] = v

\* C14: for the chain detect -> analyze -> report with declared output Report
\* and every agent succeeding, the call returns success with a "report" output
\* that includes the result of detect and the result of analyze.
C14_ReportIncludesResults ==
    (/\ pc = "done"
     /\ \A n \in {"detect", "analyze", "report"} :
            n \in DOMAIN graph /\ graph[n].status = "Completed") =>
        /\ result.tag = "Ok"
        /\ result.success
        /\ "report" \in DOMAIN result.outputs
        /\ ReportShows(result.outputs["report"], step_results["detect"])
        /\ ReportShows(result.outputs["report"], step_results["analyze"])

\* the log entries of the run that report a timeout of step n
TimedOutEntries(n) ==
    {k \in DOMAIN execution_history[1].logs :
        /\ execution_history[1].logs[k].step = n
        /\ execution_history[1].logs[k].msg = "Step failed: analyze timed out"}

\* C15: in the chain, when analyze has max_attempts = 2 and times out on both
\* attempts, the call does not return success, the log of the run holds
\* exactly two "timed out" entries for analyze, and report is never launched.
C15_TimeoutsLogged ==
    (/\ pc = "done"
     /\ \E t \in DOMAIN tasks :
            /\ tasks[t].step.name = "analyze"
            /\ tasks[t].step.retry_policy.max_attempts = 2
            /\ tasks[t].st = "finished"
            /\ tasks[t].invocations = 2
            /\ tasks[t].result = Err("Timeout", "analyze timed out")) =>
        /\ result.tag = "Err"
        /\ Cardinality(TimedOutEntries("analyze")) = 2
        /\ \A t \in DOMAIN tasks : tasks[t].step.name # "report"

(***************************************************************************)
(* Independent steps (checked under Spec)                                  *)
(***************************************************************************)
\* steps A and B have no dependencies and no dependent in common
Independent(A, B) ==
    /\ A # B
    /\ graph[A].step.dependencies = <<>>
    /\ graph[B].step.dependencies = <<>>
    /\ ~\E n \in DOMAIN graph :
            {A, B} \subseteq Range(graph[n].step.dependencies)

\* C16: for two steps A and B without dependencies and without shared
\* dependents, when A has failed and B's agent has succeeded, the node of B is
\* Completed once the run has ended.
C16_IndependentStepCompletes ==
    (pc = "done" /\ UniqueNames(workflow)) =>
        \A A \in DOMAIN graph, B \in DOMAIN graph :
            (/\ Independent(A, B)
             /\ graph[A].status = "Failed"
             /\ \E t \in DOMAIN tasks :
                    /\ tasks[t].step.name = B
                    /\ tasks[t].st = "finished"
                    /\ tasks[t].result.tag = "Ok") =>
                graph[B].status = "Completed"

(***************************************************************************)
(* Properties of step inputs and declared outputs (checked under SpecData) *)
(***************************************************************************)
\* the declared outputs that are looked up among the step results
ResultTyped ==
    {"ProjectPath", "ProjectInfo", "AnalysisResults", "CopilotPrompt", "CopilotResponse"}

\* a declared result-typed output has no step result under its name
MissingOutput(wf, results) ==
    \E i \in DOMAIN wf.outputs :
        /\ wf.outputs[i] \in ResultTyped
        /\ output_name_to_string(wf.outputs[i]) \notin DOMAIN results

\* C17: a call that returns Ok returns an output map with an entry for every
\* declared output; when output aggregation finds no step result for a
\* declared result-typed output, the call gets an Execution error.
C17_DeclaredOutputsOrError ==
    /\ [](pc = "done" /\ result.tag = "Ok" =>
            \A i \in DOMAIN workflow.outputs :
                output_name_to_string(workflow.outputs[i]) \in DOMAIN result.outputs)
    /\ [][GenerateOutputs /\ MissingOutput(workflow, step_results) =>
            result'.tag = "Err" /\ result'.kind = "Execution"]_vars

C17_Witness ==
    /\ pc = "done"
    /\ \A n \in DOMAIN graph : graph[n].status = "Completed"
    /\ "analysis_results" \in DOMAIN step_results
    /\ workflow.outputs = <<"AnalysisResults", "ProjectInfo">>
    /\ result = Err("Execution", "project_info not available")

\* C18: a step with input AnalysisResults, launched after a dependency that
\* yields analysis results has Completed, gets that step's result as the input
\* of its agent, and its input is an Execution error only when there is no
\* such completed result.
C18_InputFromCompletedStep ==
    \A t \in DOMAIN tasks :
        (tasks[t].step.input = "AnalysisResults" /\ tasks[t].input # None) =>
            \A d \in Range(tasks[t].step.dependencies) :
                (graph[d].step.output = "AnalysisResults" /\ d \in DOMAIN step_results) =>
                    tasks[t].input = Ok(step_results[d])

(***************************************************************************)
(* Termination (checked under SpecLive)                                    *)
(***************************************************************************)
\* C20: a call on a workflow that passes validation, with finite max_attempts
\* and agent calls that return or are cut off by the timeout, eventually
\* leaves the scheduling loop and returns its result.
C20_ExecuteWorkflowReturns ==
    (pc # "idle" /\ validate_workflow(workflow).tag = "Ok") ~>
        (pc = "done" /\ result # None)

C20_Witness ==
    /\ pc = "done"
    /\ validate_workflow(workflow).tag = "Ok"
    /\ result.tag = "Ok"
    /\ \E t \in DOMAIN tasks : tasks[t].sleeps > 0
    /\ DOMAIN running_steps = {}

(***************************************************************************)
(* Properties of the history lookups (checked under SpecLookup)            *)
(***************************************************************************)
\* C21: the history is append-only: no step removes or reorders a record or
\* changes a record's id, workflow name or context; a lookup leaves the
\* history as it is; get_execution(id) returns the record with that id when
\* one was created and None otherwise.
C21_AppendOnlyHistory ==
    [][/\ Len(execution_history') >= Len(execution_history)
       /\ \A i \in DOMAIN execution_history :
            /\ execution_history'[i].id = execution_history[i].id
            /\ execution_history'[i].workflow_name = execution_history[i].workflow_name
            /\ execution_history'[i].context = execution_history[i].context
       /\ lookup' # lookup => execution_history' = execution_history
       /\ (lookup' # lookup /\ lookup'.op = "get_execution_history") =>
            lookup'.value.records = execution_history
       /\ (lookup' # lookup /\ lookup'.op = "get_execution") =>
            IF \E i \in DOMAIN execution_history :
                    execution_history[i].id = lookup'.id
            THEN /\ lookup'.value.tag = "Some"
                 /\ lookup'.value.value \in Range(execution_history)
                 /\ lookup'.value.value.id = lookup'.id
            ELSE lookup'.value = None]_vars

\* the first of two records is looked up after the second call has returned
C21_Witness ==
    /\ Len(execution_history) = 2
    /\ execution_history[2].end_time
    /\ lookup.op = "get_execution"
    /\ lookup.id = 1
    /\ lookup.value = Some(execution_history[1])
    /\ execution_history[1].status = "Running"

(***************************************************************************)
(* The execution time reported to the caller (checked under Spec)          *)
(***************************************************************************)
\* C22: the execution_time of the WorkflowResult of a successful run equals
\* the execution_time stored on the run's record when it is finalized.
C22_ExecutionTimeOfRecord ==
    (pc = "done" /\ result.tag = "Ok") =>
        /\ execution_history[1].execution_time.tag = "Some"
        /\ result.execution_time = execution_history[1].execution_time.value

(***************************************************************************)
(* Workflows without steps (checked under SpecRegistry)                    *)
(***************************************************************************)
\* C23: a workflow with a non-empty name, no steps and no declared outputs is
\* accepted whatever the registry holds: the call returns Ok with
\* success = true and an empty output map, no step is launched or logged, and
\* the record of the run is finalized Completed.
C23_EmptyWorkflowAccepted ==
    (/\ pc = "done"
     /\ workflow.name # ""
     /\ workflow.steps = <<>>
     /\ workflow.outputs = <<>>) =>
        /\ result.tag = "Ok"
        /\ result.success
        /\ DOMAIN result.outputs = {}
        /\ tasks = <<>>
        /\ execution_history[1].logs = <<>>
        /\ execution_history[1].status = "Completed"

C23_Witness ==
    /\ pc = "done"
    /\ registry = {}
    /\ workflow.name # ""
    /\ workflow.steps = <<>>
    /\ workflow.outputs = <<>>
    /\ result.tag = "Ok"

(***************************************************************************)
(* Properties of the retry loop of one step (checked under SpecStep)       *)
(***************************************************************************)
\* what a task shows of its retries: attempts made, sleeps taken, the delay of
\* the sleep in progress, its position and whether it succeeded or failed
RetryView(t) ==
    [attempt |-> t.attempt, invocations |-> t.invocations, sleeps |-> t.sleeps,
     delay |-> t.delay, st |-> t.st, outcome |-> t.result.tag]

\* C24: two tasks of the same step whose attempts differ only in that an
\* agent error of one is a timeout of the other make the same number of
\* attempts, sleep the same backoff delay after each attempt and both
\* succeed or both fail.
C24_TimeoutLikeAgentError == RetryView(tasks[1]) = RetryView(tasks[2])

C24_Witness ==
    /\ tasks[1].st = "finished"
    /\ tasks[1].result.tag = "Err"
    /\ tasks[1].sleeps > 0
    /\ tasks[1].delay > 1
    /\ observed.first = <<"timeout", "err">>
    /\ observed.last = <<"err", "timeout">>

\* C25: when a step has failed after its last allowed attempt, its task's
\* result is the error of that last attempt: a Timeout error naming the step
\* if the attempt timed out, else the agent's error of that attempt.
C25_LastErrorSurfaced ==
    \A t \in DOMAIN tasks :
        (/\ tasks[t].st = "finished"
         /\ tasks[t].result.tag = "Err"
         /\ tasks[t].invocations >= 1
         /\ tasks[t].attempt >= tasks[t].step.retry_policy.max_attempts) =>
            tasks[t].result =
                IF observed.last[t] = "timeout"
                THEN Err("Timeout", tasks[t].step.name \o " timed out")
                ELSE Err("Other", "agent error")

C25_Witness ==
    /\ tasks[1].st = "finished"
    /\ tasks[1].attempt = 2
    /\ tasks[1].step.retry_policy.max_attempts = 2
    /\ observed.first[1] = "err"
    /\ observed.last[1] = "timeout"
    /\ tasks[1].result = Err("Timeout", "a timed out")

Max(a, b) == IF a >= b THEN a ELSE b

\* C27: a step whose attempts fail until attempt k and then succeed has its
\* agent invoked min(k, max(1, max_attempts)) times: an attempt that succeeds
\* ends the step as succeeded and is the last one, the invocations never
\* exceed max(1, max_attempts), and a step that has failed has made all of
\* its max(1, max_attempts) attempts.
C27_InvocationCount ==
    \A t \in DOMAIN tasks :
        LET allowed == Max(1, tasks[t].step.retry_policy.max_attempts)
        IN /\ tasks[t].invocations <= allowed
           /\ (observed # NoCalls /\ observed.last[t] = "ok") =>
                tasks[t].st = "finished" /\ tasks[t].result.tag = "Ok"
           /\ (tasks[t].st = "finished" /\ tasks[t].result.tag = "Err") =>
                tasks[t].invocations = allowed
           /\ tasks[t].st # "finished" => tasks[t].invocations < allowed

(***************************************************************************)
(* Retries and the scheduler (checked under Spec)                          *)
(***************************************************************************)
\* the "Started step" entries of the run's log for step n
StartedEntries(n) ==
    {k \in DOMAIN execution_history[1].logs :
        /\ execution_history[1].logs[k].step = n
        /\ execution_history[1].logs[k].msg = "Started step"}

\* C26: while the task of a step is retrying (it has made an attempt and is
\* not finished) and the scheduler is in its loop, the step's node is
\* Running, its name is not in the ready queue, the in-flight set holds the
\* step once, and the log has exactly one "Started step" entry for it.
C26_RetryInsideTask ==
    \A t \in DOMAIN tasks :
        (/\ pc = "sched"
         /\ tasks[t].st # "finished"
         /\ tasks[t].attempt >= 1) =>
            LET n == tasks[t].step.name
            IN /\ graph[n].status = "Running"
               /\ n \notin Range(ready_steps)
               /\ n \in DOMAIN running_steps
               /\ Cardinality(StartedEntries(n)) = 1

(***************************************************************************)
(* The wait of the scheduler (checked under SpecPoll)                      *)
(***************************************************************************)
\* C28: whenever the in-flight set is non-empty, a return of
\* wait_for_any_step takes a finished task out of the in-flight set: the
\* scheduler loop makes no iteration in which no task completed.
C28_WaitYieldsFinishedTask ==
    [][(/\ pc = "sched"
        /\ ready_steps = <<>>
        /\ DOMAIN running_steps # {}
        /\ (polls' # polls \/ running_steps' # running_steps)) =>
            \E n \in DOMAIN running_steps :
                /\ tasks[running_steps[n]].st = "finished"
                /\ n \notin DOMAIN running_steps']_vars

(***************************************************************************)
(* The order of the validation checks (checked under SpecValidate)         *)
(***************************************************************************)
\* the message of the first check, in the stated order, that the workflow
\* fails; "" when it passes all of them
FirstFailedCheck(wf) ==
    IF wf.name = "" THEN "Workflow name cannot be empty"
    ELSE IF ~UniqueNames(wf) THEN "Duplicate step names found"
    ELSE IF ~DepsResolve(wf) THEN "Step depends on non-existent step"
    ELSE IF ~AgentsExist(wf) THEN "Agent not found for step"
    ELSE IF Cyclic(wf) THEN "Circular dependencies detected"
    ELSE ""

\* C29: validation applies its checks in the order name non-empty, step names
\* unique, dependencies resolve, agents exist, no cycle, and the call gets the
\* Configuration error of the first check that fails, whatever else is wrong
\* with the workflow.
C29_FirstFailingCheckReported ==
    Validated =>
        IF FirstFailedCheck(workflow) = ""
        THEN result.tag # "Err"
        ELSE result = Err("Configuration", FirstFailedCheck(workflow))

\* an unknown agent and a dependency cycle: rejected for the agent
C29_Witness ==
    /\ Validated
    /\ workflow.name # ""
    /\ UniqueNames(workflow)
    /\ DepsResolve(workflow)
    /\ ~AgentsExist(workflow)
    /\ Cyclic(workflow)
    /\ result = Err("Configuration", "Agent not found for step")

(***************************************************************************)
(* Failures of input resolution (checked under SpecData)                   *)
(***************************************************************************)
\* C30: a step whose input cannot be resolved never has its agent invoked,
\* and the failure is treated like a failed attempt for retry and backoff:
\* the step is given up only after max_attempts tries, with a backoff sleep
\* between them.
C30_ResolutionFailureRetried ==
    \A t \in DOMAIN tasks :
        (tasks[t].input # None /\ tasks[t].input.tag = "Err") =>
            /\ tasks[t].invocations = 0
            /\ tasks[t].st = "finished" =>
                    tasks[t].sleeps = tasks[t].step.retry_policy.max_attempts - 1

(***************************************************************************)
(* The payload handed to the agent (checked under SpecInput)               *)
(***************************************************************************)
\* C31: the agent of a step with input ProjectPath gets the project path of
\* the context of the run, wrapped; the agent of a step with input Custom
\* gets the payload of the input unchanged.
C31_PayloadOfInput ==
    \A t \in DOMAIN tasks :
        tasks[t].invocations >= 1 =>
            /\ tasks[t].step.input = "ProjectPath" =>
                tasks[t].input = Ok("project_path=" \o tasks[t].context.project_path)
            /\ tasks[t].step.input = "Custom" =>
                tasks[t].input = Ok(tasks[t].step.payload)

(***************************************************************************)
(* The step results of the record (checked under Spec)                     *)
(***************************************************************************)
\* C32: once the record of a run is finalized, its step_results hold the
\* result of every step whose node is Completed, under the step's name.
C32_RecordAccumulatesResults ==
    pc = "done" =>
        \A n \in DOMAIN graph :
            graph[n].status = "Completed" =>
                /\ n \in DOMAIN execution_history[1].step_results
                /\ execution_history[1].step_results[n] = step_results[n]

(***************************************************************************)
(* The log of a run (checked under Spec)                                   *)
(***************************************************************************)
EntriesOf(n, msg) ==
    {k \in DOMAIN execution_history[1].logs :
        /\ execution_history[1].logs[k].step = n
        /\ execution_history[1].logs[k].msg = msg}

ErrorEntries(n) ==
    {k \in DOMAIN execution_history[1].logs :
        /\ execution_history[1].logs[k].step = n
        /\ execution_history[1].logs[k].level = "Error"}

\* C33: in the log of a run every launched step has exactly one Info
\* "Started step" entry, every completed step exactly one Info "Completed
\* step" entry, after its own "Started step" entry and after the "Completed
\* step" entry of each of its dependencies, every failed step an Error entry,
\* and the logs of the returned WorkflowResult hold all of these entries.
C33_LogOfRun ==
    Validated /\ execution_history # <<>> =>
        /\ \A n \in DOMAIN graph :
            /\ TasksOf(n) # {} => Cardinality(EntriesOf(n, "Started step")) = 1
            /\ graph[n].status = "Completed" =>
                /\ Cardinality(EntriesOf(n, "Completed step")) = 1
                /\ \A k \in EntriesOf(n, "Completed step") :
                    /\ execution_history[1].logs[k].level = "Info"
                    /\ \E s \in EntriesOf(n, "Started step") : s < k
                    /\ \A d \in Range(graph[n].step.dependencies) :
                        \E c \in EntriesOf(d, "Completed step") : c < k
            /\ graph[n].status = "Failed" => ErrorEntries(n) # {}
        /\ (pc = "done" /\ result.tag = "Ok") =>
                result.logs = execution_history[1].logs

(***************************************************************************)
(* The execution graph (checked under Spec)                                *)
(***************************************************************************)
GraphBuilt ==
    /\ DOMAIN graph = StepNames(workflow)
    /\ Cardinality(DOMAIN graph) = Len(workflow.steps)
    /\ \A n \in DOMAIN graph :
        /\ graph[n].status = "Pending"
        /\ graph[n].result = None
        /\ graph[n].dependencies = workflow.steps[FindStep(workflow, n)].dependencies
    /\ \A a, b \in DOMAIN graph :
        b \in Range(graph[a].dependents) <=> a \in Range(graph[b].dependencies)

\* C34: the graph built by create_execution_graph has one node per step,
\* every node Pending without a result, and b is in the dependents of a
\* exactly when a is in the dependencies of b; no later step of the run
\* changes the dependencies or the dependents of a node.
C34_GraphShape ==
    [][/\ (pc = "create_graph" /\ pc' = "init_ready") => GraphBuilt'
       /\ \A n \in DOMAIN graph :
            /\ n \in DOMAIN graph'
            /\ graph'[n].dependencies = graph[n].dependencies
            /\ graph'[n].dependents = graph[n].dependents]_vars

C34_Witness ==
    /\ pc = "sched"
    /\ \E a, b \in DOMAIN graph :
        /\ a # b
        /\ b \in Range(graph[a].dependents)
        /\ graph[a].status = "Completed"
        /\ graph[b].status = "Running"

(***************************************************************************)
(* The tasks of a run after its return (checked under Spec)                *)
(***************************************************************************)
\* C35: when execute_workflow has returned, with a result or with an error,
\* no task launched by the run is still running (none will invoke its agent,
\* retry or sleep a backoff) and no node is left in status Running.
C35_NoTaskAfterReturn ==
    pc = "done" =>
        /\ \A t \in DOMAIN tasks : tasks[t].st = "finished"
        /\ \A n \in DOMAIN graph : graph[n].status # "Running"

(***************************************************************************)
(* Registered agents (checked under SpecRegistered)                        *)
(***************************************************************************)
\* C36: the step of an agent registered with register_agent, whose execute
\* succeeds, completes successfully: the task of the step returns the
\* agent's value, not the dispatcher's "Agent not initialized" error.
C36_RegisteredAgentRuns ==
    \A t \in DOMAIN tasks :
        (tasks[t].st = "finished" /\ tasks[t].input.tag = "Ok") =>
            tasks[t].result = Ok(tasks[t].step.name)

(***************************************************************************)
(* The dispatcher's lifecycle (checked under SpecDispatcher)               *)
(***************************************************************************)
InitializedBefore(k) ==
    \E j \in 1..(k - 1) :
        observed[j].op = "initialize" /\ observed[j].result.tag = "Ok"

\* C37: execute and cleanup reach the wrapped agent only after an initialize
\* that succeeded; before it execute returns the Configuration error "Agent
\* not initialized" and cleanup returns Ok without calling the agent; the
\* wrapped agent's initialize succeeds at most once, a later initialize
\* returns Ok without calling it; a failed initialize leaves the dispatcher
\* uninitialized.
C37_DispatcherLifecycle ==
    /\ \A k \in DOMAIN observed :
        /\ (observed[k].op \in {"execute", "cleanup"} /\ observed[k].reached) =>
                InitializedBefore(k)
        /\ (observed[k].op = "execute" /\ ~InitializedBefore(k)) =>
                observed[k].result = Err("Configuration", "Agent not initialized")
        /\ (observed[k].op = "cleanup" /\ ~InitializedBefore(k)) =>
                observed[k].result = Ok("()") /\ ~observed[k].reached
        /\ (observed[k].op = "initialize" /\ InitializedBefore(k)) =>
                observed[k].result = Ok("()") /\ ~observed[k].reached
        /\ (observed[k].op = "initialize" /\ observed[k].result.tag = "Err") =>
                ~observed[k].initialized
    /\ Cardinality({k \in DOMAIN observed :
            /\ observed[k].op = "initialize"
            /\ observed[k].reached
            /\ observed[k].result.tag = "Ok"}) <= 1

C37_Witness ==
    /\ Len(observed) = 4
    /\ observed[1].op = "initialize" /\ observed[1].result.tag = "Err"
            /\ observed[1].reached
    /\ observed[2].op = "execute" /\ observed[2].result.tag = "Err"
    /\ observed[3].op = "initialize" /\ observed[3].result.tag = "Ok"
    /\ observed[4].op = "execute" /\ observed[4].reached
            /\ observed[4].result.tag = "Ok"

(***************************************************************************)
(* Monotonicity of the exponential backoff (checked under SpecBackoff)     *)
(***************************************************************************)
\* C38: under the Exponential strategy with a fixed max_delay the delay does
\* not decrease when the attempt number grows: the delay of attempt a is at
\* least the delay of attempt a - 1, and a call never fails.
C38_BackoffMonotone ==
    (/\ bk.called
     /\ bk.retry_policy.backoff_strategy = "Exponential"
     /\ bk.attempt >= 2) =>
        LET prev == calculate_backoff(bk.attempt - 1, bk.retry_policy,
                                      bk.overflow_checks)
        IN /\ ~bk.out.panic
           /\ ~prev.panic
           /\ prev.secs <= bk.out.secs

====
